---- MODULE Spec2Model ----
(***************************************************************************)
(* AniMangaBot (animanga/animanga.py): the command handlers, the two-call  *)
(* exchange with the AniList API, the decoding and normalisation of the    *)
(* responses, the image relocation and the rendering of the reply.         *)
(*                                                                         *)
(* Text is a sequence of tokens: an f-string is the concatenation of its   *)
(* literal pieces and its interpolated values; an emoji is written as its  *)
(* name in brackets.  A JSON value that may be null is a sequence of       *)
(* length 0 (null) or 1 (the value).                                       *)
(***************************************************************************)
EXTENDS Integers, Sequences, FiniteSets, TLC

\* ------------------------------------------------------------------ bounds
\* number of command invocations the model keeps track of
NumInv == 2

Invs == 1..NumInv

\* the invocations the single-flow specification runs
Active == {1}

\* --------------------------------------------------------- nullable values
None == <<>>

Some(x) == <<x>>

\* Python truthiness of a nullable string: None and "" are falsy
TruthyStr(o) == o # <<>> /\ o[1] # ""

\* Python truthiness of a nullable integer: None and 0 are falsy
TruthyInt(o) == o # <<>> /\ o[1] # 0

RECURSIVE Join(_, _)
\* sep.join(parts) for a sequence of token sequences
Join(parts, sep) ==
  IF parts = <<>> THEN <<>>
  ELSE IF Len(parts) = 1 THEN parts[1]
  ELSE parts[1] \o sep \o Join(Tail(parts), sep)

RECURSIVE Strip(_)
\* str.strip() on a title given as tokens, " " being a run of whitespace
Strip(t) ==
  IF t = <<>> THEN <<>>
  ELSE IF Head(t) = " " THEN Strip(Tail(t))
  ELSE IF t[Len(t)] = " " THEN Strip(SubSeq(t, 1, Len(t) - 1))
  ELSE t

\* ------------------------------------------------------- datastructures.py
relation_types ==
  ("ADAPTATION" :> <<"Adaptation", 0>>) @@
  ("PREQUEL" :> <<"Prequel", 1>>) @@
  ("SEQUEL" :> <<"Sequel", 2>>) @@
  ("PARENT" :> <<"Parent", 3>>) @@
  ("SIDE_STORY" :> <<"Side Story", 4>>) @@
  ("SPIN_OFF" :> <<"Spin Off", 5>>) @@
  ("ALTERNATIVE" :> <<"Alternative", 6>>) @@
  ("SUMMARY" :> <<"Summary", 7>>) @@
  ("SOURCE" :> <<"Source", 8>>) @@
  ("COMPILATION" :> <<"Compilation", 9>>) @@
  ("OTHER" :> <<"Other", 10>>) @@
  ("CONTAINS" :> <<"Contains", 11>>) @@
  ("CHARACTER" :> <<"Character", 12>>)

media_formats ==
  ("TV" :> "TV Show") @@ ("TV_SHORT" :> "TV Short") @@ ("MOVIE" :> "Movie") @@
  ("SPECIAL" :> "Special") @@ ("OVA" :> "OVA") @@ ("ONA" :> "ONA") @@
  ("MUSIC" :> "Music") @@ ("MANGA" :> "Manga") @@ ("NOVEL" :> "Novel") @@
  ("ONE_SHOT" :> "One Shot")

statuses ==
  ("FINISHED" :> "Finished") @@ ("RELEASING" :> "Releasing") @@
  ("NOT_YET_RELEASED" :> "Not Yet Released") @@ ("CANCELLED" :> "Cancelled") @@
  ("HIATUS" :> "Hiatus")

seasons ==
  ("WINTER" :> "Winter") @@ ("SPRING" :> "Spring") @@ ("SUMMER" :> "Summer") @@
  ("FALL" :> "Fall")

months ==
  <<"Jan", "Feb", "Mar", "Apr", "May", "Jun", "Jul", "Aug", "Sep", "Oct", "Nov", "Dec">>

\* table.get(key, key) for a nullable key
Lookup(table, key) ==
  IF key # None /\ key[1] \in DOMAIN table THEN Some(table[key[1]]) ELSE key

\* str.title() on the relation kinds the catalog responses of the model use
StrTitle(s) ==
  CASE s = "FAKERELATION" -> "Fakerelation"
    [] s = "ADAPTATION"   -> "Adaptation"
    [] s = "PREQUEL"      -> "Prequel"
    [] s = "SEQUEL"       -> "Sequel"
    [] s = "SIDE_STORY"   -> "Side_Story"
    [] s = "MUSIC_VIDEO"  -> "Music_Video"
    [] s = "CHARACTER"    -> "Character"
    [] OTHER              -> s

\* str.lower() on the media kinds
StrLower(s) ==
  CASE s = "ANIME" -> "anime"
    [] s = "MANGA" -> "manga"
    [] OTHER       -> s

\* str(n) for an integer interpolated into an f-string
Str(n) == ToString(n)

\* ----------------------------------------------------------- configuration
\* the strings of the configurations of the model that int() accepts
DecimalLiterals == ("2" :> 2) @@ ("0" :> 0) @@ ("-3" :> -3) @@ (" 7 " :> 7)

\* int(x) for a configured value: an integer, a float given in tenths
\* (truncated toward zero), a string that is or is not a decimal literal,
\* or null; err is "ValueError" for a string int() rejects and "TypeError"
\* for null
ToInt(cv) ==
  IF "int" \in DOMAIN cv THEN [err |-> "", val |-> cv.int]
  ELSE IF "tenths" \in DOMAIN cv
  THEN [err |-> "",
        val |-> IF cv.tenths >= 0 THEN cv.tenths \div 10 ELSE -((-cv.tenths) \div 10)]
  ELSE IF "str" \in DOMAIN cv
  THEN IF cv.str \in DOMAIN DecimalLiterals
       THEN [err |-> "", val |-> DecimalLiterals[cv.str]]
       ELSE [err |-> "ValueError", val |-> 0]
  ELSE [err |-> "TypeError", val |-> 0]

Max(a, b) == IF a >= b THEN a ELSE b

\* _get_max_value: the value and the error entries it logs; raised is the
\* TypeError of int(), which the except clause does not catch
get_max_value(cfg, name, default) ==
  LET conv == IF name \in DOMAIN cfg THEN ToInt(cfg[name])
              ELSE [err |-> "", val |-> default]
  IN IF conv.err = "ValueError"
     THEN [raised |-> FALSE, val |-> default,
           log |-> << <<"Incorrect '", name, "' config value. Setting default value of ",
                       Str(default), ".">> >>]
     ELSE IF conv.err = "TypeError"
     THEN [raised |-> TRUE, val |-> 0, log |-> <<>>]
     ELSE [raised |-> FALSE, val |-> Max(1, conv.val), log |-> <<>>]

get_max_results(cfg) == get_max_value(cfg, "max_results", 4)

get_max_relations(cfg) == get_max_value(cfg, "max_relations", 4)

\* ------------------------------------------------------------------ decode
\* ErrorLog with the messages joined by ", "
ErrorLog_comma(errors) ==
  <<"Error parsing results: ">> \o
  Join([k \in 1..Len(errors) |->
          IF "message" \in DOMAIN errors[k] THEN <<errors[k].message>> ELSE <<"">>],
       <<", ">>)

\* the error entry both parsers log for an error envelope
ErrorLog(errors) ==
  <<"Error parsing results: ">> \o
  Join([k \in 1..Len(errors) |->
          IF "message" \in DOMAIN errors[k] THEN <<errors[k].message>> ELSE <<"">>],
       <<"; ">>)

SearchResult(id, id_mal, title_en, title_ro, media_type) ==
  [id |-> id, id_mal |-> id_mal, title_en |-> title_en, title_ro |-> title_ro,
   media_type |-> media_type]

\* al_parse_results signalling the error envelope to its caller by raising
al_parse_results_raise(data) ==
  IF data.errors # <<>>
  THEN [raised |-> TRUE, value |-> <<>>, log |-> <<ErrorLog(data.errors)>>]
  ELSE IF data.data = None
  THEN [raised |-> TRUE, value |-> <<>>, log |-> <<>>]
  ELSE LET media == data.data[1].Page.media
       IN [raised |-> FALSE,
           value |-> [k \in 1..Len(media) |->
                        SearchResult(media[k].id, media[k].idMal,
                                     media[k].title.english, media[k].title.romaji,
                                     Some(""))],
           log |-> <<>>]

\* _al_parse_results: raised is the TypeError of subscripting a null data
\* payload (the KeyError of a missing one); media_type keeps the dataclass
\* default
al_parse_results(data) ==
  IF data.errors # <<>>
  THEN [raised |-> FALSE, value |-> <<>>, log |-> <<ErrorLog(data.errors)>>]
  ELSE IF data.data = None
  THEN [raised |-> TRUE, value |-> <<>>, log |-> <<>>]
  ELSE LET media == data.data[1].Page.media
       IN [raised |-> FALSE,
           value |-> [k \in 1..Len(media) |->
                        SearchResult(media[k].id, media[k].idMal,
                                     media[k].title.english, media[k].title.romaji,
                                     Some(""))],
           log |-> <<>>]

\* the sort key of _parse_relations
RelationPriority(rel) ==
  IF rel.relationType \in DOMAIN relation_types
  THEN relation_types[rel.relationType][2]
  ELSE Cardinality(DOMAIN relation_types)

RECURSIVE InsertSorted_unstable(_, _)
\* x placed before the elements of the sorted s of its own priority
InsertSorted_unstable(s, x) ==
  IF s = <<>> THEN <<x>>
  ELSE IF RelationPriority(Head(s)) < RelationPriority(x)
       THEN <<Head(s)>> \o InsertSorted_unstable(Tail(s), x)
       ELSE <<x>> \o s

RECURSIVE InsertSorted(_, _)
\* x placed after every element of the sorted s whose priority is <= its own
InsertSorted(s, x) ==
  IF s = <<>> THEN <<x>>
  ELSE IF RelationPriority(Head(s)) <= RelationPriority(x)
       THEN <<Head(s)>> \o InsertSorted(Tail(s), x)
       ELSE <<x>> \o s

RECURSIVE SortedStable(_)
\* sorted(relations_raw, key=priority): stable, ascending
SortedStable(s) ==
  IF s = <<>> THEN <<>>
  ELSE InsertSorted(SortedStable(SubSeq(s, 1, Len(s) - 1)), s[Len(s)])

\* the label of one relation edge
RelationLabel(rel) ==
  IF rel.relationType \in DOMAIN relation_types
  THEN relation_types[rel.relationType][1]
  ELSE StrTitle(rel.relationType)

\* _parse_relations: (label, SearchResult) pairs in priority order
parse_relations(relations_raw) ==
  LET sorted == SortedStable(relations_raw)
  IN [k \in 1..Len(sorted) |->
        <<RelationLabel(sorted[k]),
          SearchResult(sorted[k].node.id, sorted[k].node.idMal,
                       sorted[k].node.title.english, sorted[k].node.title.romaji,
                       sorted[k].node.type)>>]

\* relations[-n:]
Prefix_last(s, n) == SubSeq(s, IF n < Len(s) THEN Len(s) - n + 1 ELSE 1, Len(s))

\* relations[:n]
Prefix(s, n) == SubSeq(s, 1, IF n < Len(s) THEN n ELSE Len(s))

RECURSIVE SplitHead(_, _)
\* text.split(sep)[0]: the tokens before the first occurrence of sep
SplitHead(text, sep) ==
  IF text = <<>> \/ Head(text) = sep THEN <<>>
  ELSE <<Head(text)>> \o SplitHead(Tail(text), sep)

\* _parse_desctiption looking for "Note:" first
parse_description_note_first(m) ==
  IF m.description # None /\ m.description[1] # <<>>
  THEN LET text == m.description[1]
           description_separator ==
             IF \E k \in 1..Len(text) : text[k] = "Note:" THEN "Note:" ELSE "Notes:"
       IN SplitHead(text, description_separator)
  ELSE <<>>

\* _parse_desctiption
parse_description(m) ==
  IF m.description # None /\ m.description[1] # <<>>
  THEN LET text == m.description[1]
           description_separator ==
             IF \E k \in 1..Len(text) : text[k] = "Notes:" THEN "Notes:" ELSE "Note:"
       IN SplitHead(text, description_separator)
  ELSE <<>>

\* _parse_date
parse_date(m, date_key) ==
  (IF TruthyInt(m[date_key].day) THEN <<Str(m[date_key].day[1]), " ">> ELSE <<>>) \o
  (IF TruthyInt(m[date_key].month) THEN <<months[m[date_key].month[1]], " ">> ELSE <<>>) \o
  (IF TruthyInt(m[date_key].year) THEN <<Str(m[date_key].year[1])>> ELSE <<>>)

\* datetime.fromtimestamp(t).strftime("%A, %-d %b %Y, %H:%M") in the zone of
\* the host, for the airing times the catalog responses of the model use
FormatTimestamp(t) ==
  IF t = 1768143600 THEN "Sunday, 11 Jan 2026, 16:00"
  ELSE IF t = 86400 THEN "Friday, 2 Jan 1970, 01:00"
  ELSE "Thursday, 1 Jan 1970, 01:00"

\* _parse_next_airing_episode
parse_next_airing_episode(m) ==
  IF m.nextAiringEpisode # None /\ TruthyInt(m.nextAiringEpisode[1].airingAt)
  THEN Some(FormatTimestamp(m.nextAiringEpisode[1].airingAt[1]))
  ELSE None

\* the (name, id) pair of a studio edge
StudioOf(edge) == <<edge.node.name, edge.node.id>>

\* _parse_studios counting the edges that are not flagged main
parse_studios_unflagged(m) ==
  LET edges == m.studios.edges
      main == {StudioOf(edges[k]) : k \in {j \in 1..Len(edges) : edges[j].isMain}}
      studios == IF main # {} THEN main ELSE {StudioOf(edges[1])}
  IN IF edges # <<>>
     THEN <<studios, Cardinality({j \in 1..Len(edges) : ~edges[j].isMain})>>
     ELSE <<{}, 0>>

\* _parse_studios: the set of studios and the number of the other edges
parse_studios(m) ==
  LET edges == m.studios.edges
      main == {StudioOf(edges[k]) : k \in {j \in 1..Len(edges) : edges[j].isMain}}
      studios == IF main # {} THEN main ELSE {StudioOf(edges[1])}
  IN IF edges # <<>>
     THEN <<studios, Len(edges) - Cardinality(studios)>>
     ELSE <<{}, 0>>

RECURSIVE SumAmounts(_)
\* sum(score["amount"] for score in distribution)
SumAmounts(distribution) ==
  IF distribution = <<>> THEN 0
  ELSE Head(distribution).amount + SumAmounts(Tail(distribution))

\* the tags, spoilers and all
RECURSIVE NonSpoilerTags_all(_)
NonSpoilerTags_all(tags) ==
  IF tags = <<>> THEN <<>>
  ELSE <<Head(tags).name>> \o NonSpoilerTags_all(Tail(tags))

\* the tags not marked as spoilers
RECURSIVE NonSpoilerTags(_)
NonSpoilerTags(tags) ==
  IF tags = <<>> THEN <<>>
  ELSE (IF Head(tags).isMediaSpoiler THEN <<>> ELSE <<Head(tags).name>>) \o
       NonSpoilerTags(Tail(tags))

\* the body of _al_parse_main_result after the error check, for a data
\* payload that is present; raised is the TypeError of summing over a null
\* scoreDistribution or of get_max_relations
BuildRecord(m, cfg) ==
  LET relations == parse_relations(m.relations.edges)
      lim == get_max_relations(cfg)
      common ==
        [id |-> m.id,
         id_mal |-> m.idMal,
         title_ro |-> m.title.romaji,
         title_en |-> m.title.english,
         title_ja |-> m.title.native,
         type |-> m.type,
         image |-> m.coverImage.large,
         start_date |-> parse_date(m, "startDate"),
         end_date |-> parse_date(m, "endDate"),
         description |-> parse_description(m),
         average_score |-> m.averageScore,
         mean_score |-> m.meanScore,
         votes |-> IF "scoreDistribution" \in DOMAIN m.stats
                   THEN SumAmounts(m.stats.scoreDistribution[1]) ELSE 0,
         favorites |-> m.favourites,
         nsfw |-> m.isAdult,
         format |-> Lookup(media_formats, m.format),
         status |-> Lookup(statuses, m.status),
         genres |-> m.genres,
         tags |-> NonSpoilerTags(m.tags),
         relations |-> Prefix(relations, lim.val),
         links |-> [k \in 1..Len(m.externalLinks) |->
                      <<m.externalLinks[k].site, m.externalLinks[k].url>>]]
      anime_fields ==
        [episodes |-> m.episodes,
         season |-> Lookup(seasons, m.season),
         season_year |-> m.seasonYear,
         next_episode_num |-> IF m.nextAiringEpisode # None
                              THEN m.nextAiringEpisode[1].episode ELSE None,
         next_episode_date |-> parse_next_airing_episode(m),
         duration |-> m.duration,
         studios |-> parse_studios(m)[1],
         studio_number |-> parse_studios(m)[2],
         trailer |-> IF m.trailer # None
                     THEN <<m.trailer[1].site, m.trailer[1].id>> ELSE <<>>,
         volumes |-> Some(0),
         chapters |-> Some(0)]
      manga_fields ==
        [episodes |-> Some(0),
         season |-> Some(""),
         season_year |-> Some(0),
         next_episode_num |-> Some(0),
         next_episode_date |-> Some(""),
         duration |-> Some(0),
         studios |-> {},
         studio_number |-> 0,
         trailer |-> <<>>,
         volumes |-> m.volumes,
         chapters |-> m.chapters]
  IN IF "scoreDistribution" \in DOMAIN m.stats /\ m.stats.scoreDistribution = None
     THEN [raised |-> TRUE, value |-> None, log |-> <<>>]
     ELSE IF lim.raised
     THEN [raised |-> TRUE, value |-> None, log |-> <<>>]
     ELSE [raised |-> FALSE,
           value |-> Some(common @@
                          (IF m.type = Some("ANIME") THEN anime_fields ELSE manga_fields)),
           log |-> lim.log]

\* al_parse_main_result filling the anime fields for a payload of any kind
al_parse_main_result_anime_branch(data, cfg) ==
  IF data.errors # <<>>
  THEN [raised |-> FALSE, value |-> None, log |-> <<ErrorLog(data.errors)>>]
  ELSE IF data.data = None
  THEN [raised |-> TRUE, value |-> None, log |-> <<>>]
  ELSE LET m == data.data[1].Media
           built == BuildRecord([m EXCEPT !.type = Some("ANIME")], cfg)
       IN IF built.raised THEN built
          ELSE [built EXCEPT !.value = Some([built.value[1] EXCEPT !.type = m.type])]

\* al_parse_main_result decoding the data payload of an error envelope
al_parse_main_result_partial(data, cfg) ==
  IF data.data = None
  THEN IF data.errors # <<>>
       THEN [raised |-> FALSE, value |-> None, log |-> <<ErrorLog(data.errors)>>]
       ELSE [raised |-> TRUE, value |-> None, log |-> <<>>]
  ELSE BuildRecord(data.data[1].Media, cfg)

\* _al_parse_main_result: value is None for an error envelope, raised is the
\* TypeError of subscripting a null data payload (the KeyError of a missing
\* one)
al_parse_main_result(data, cfg) ==
  IF data.errors # <<>>
  THEN [raised |-> FALSE, value |-> None, log |-> <<ErrorLog(data.errors)>>]
  ELSE IF data.data = None
  THEN [raised |-> TRUE, value |-> None, log |-> <<>>]
  ELSE BuildRecord(data.data[1].Media, cfg)

\* ------------------------------------------------------------------ render
\* a nullable string interpolated into an f-string
Fmt(o) == IF o = None THEN "None" ELSE o[1]

\* _get_link
get_link(url, text, is_html) ==
  IF is_html THEN <<"<a href=\"">> \o url \o <<"\">">> \o text \o <<"</a>">>
  ELSE <<"[">> \o text \o <<"](">> \o url \o <<")">>

\* data.type.lower() if data.type else "anime"
MediaTypeOf(data) == IF TruthyStr(data.type) THEN StrLower(data.type[1]) ELSE "anime"

\* title_en if title_en else title_ro
MainTitle(r) == IF TruthyStr(r.title_en) THEN r.title_en ELSE r.title_ro

\* _get_titles
get_titles(data, is_html) ==
  LET media_type == MediaTypeOf(data)
      title == <<Fmt(MainTitle(data))>>
      al_url == <<"https://anilist.co/", media_type, "/", Str(data.id)>>
      mal_url == <<"https://myanimelist.net/", media_type, "/">> \o
                 (IF data.id_mal = None THEN <<"None">> ELSE <<Str(data.id_mal[1])>>)
  IN IF is_html
     THEN <<"<h3>">> \o get_link(al_url, title, TRUE) \o
          (IF TruthyInt(data.id_mal)
           THEN <<" <sup>(">> \o get_link(mal_url, <<"MAL">>, TRUE) \o <<")</sup>">>
           ELSE <<>>) \o
          (IF data.nsfw THEN <<" [no one under eighteen]">> ELSE <<>>) \o <<"</h3>">>
     ELSE <<"> ### ">> \o get_link(al_url, title, FALSE) \o
          (IF TruthyInt(data.id_mal)
           THEN <<" (">> \o get_link(mal_url, <<"MAL">>, FALSE) \o <<")">>
           ELSE <<>>) \o
          (IF data.nsfw THEN <<" [no one under eighteen]">> ELSE <<>>) \o <<"  \n>  \n">>

\* str(float(x) / 10) for a score x
ScoreText(x) == <<Str(x \div 10), ".", Str(x % 10)>>

\* the wrapping of a line of the details table
Line(label_html, label_md, content, is_html) ==
  IF is_html THEN <<"<blockquote><b>", label_html, "</b> ">> \o content \o <<"</blockquote>">>
  ELSE <<"> > **", label_md, " ">> \o content \o <<"  \n>  \n">>

\* _get_score looking at the mean score first
get_score_mean_first(data, is_html) ==
  LET score == IF TruthyInt(data.mean_score) THEN data.mean_score
               ELSE IF TruthyInt(data.average_score) THEN data.average_score
               ELSE None
  IN IF score # None
     THEN LET vote_data ==
                <<"[star] ">> \o ScoreText(score[1]) \o <<"/10">> \o
                (IF data.votes # 0 THEN <<" | [user] ", Str(data.votes), " votes">>
                 ELSE <<>>) \o
                (IF TruthyInt(data.favorites)
                 THEN <<" | [heart] ", Str(data.favorites[1]), " favorites">> ELSE <<>>)
          IN Line("Score:", "Score**:", vote_data, is_html)
     ELSE <<>>

\* _get_score
get_score(data, is_html) ==
  LET score == IF TruthyInt(data.average_score) THEN data.average_score
               ELSE IF TruthyInt(data.mean_score) THEN data.mean_score
               ELSE None
  IN IF score # None
     THEN LET vote_data ==
                <<"[star] ">> \o ScoreText(score[1]) \o <<"/10">> \o
                (IF data.votes # 0 THEN <<" | [user] ", Str(data.votes), " votes">>
                 ELSE <<>>) \o
                (IF TruthyInt(data.favorites)
                 THEN <<" | [heart] ", Str(data.favorites[1]), " favorites">> ELSE <<>>)
          IN Line("Score:", "Score**:", vote_data, is_html)
     ELSE <<>>

RECURSIVE ReplaceDoubleBreak(_)
\* str.replace('<br><br>', '<br>'): one pass, left to right, not overlapping
ReplaceDoubleBreak(text) ==
  IF Len(text) < 2 THEN text
  ELSE IF text[1] = "<br>" /\ text[2] = "<br>"
       THEN <<"<br>">> \o ReplaceDoubleBreak(SubSeq(text, 3, Len(text)))
       ELSE <<text[1]>> \o ReplaceDoubleBreak(Tail(text))

RECURSIVE MarkdownBreaks(_)
\* .replace('\r', '').replace('\n', '').replace('<br>', '  \n>')
MarkdownBreaks(text) ==
  IF text = <<>> THEN <<>>
  ELSE (IF Head(text) \in {"\r", "\n"} THEN <<>>
        ELSE IF Head(text) = "<br>" THEN <<"  \n>">>
        ELSE <<Head(text)>>) \o MarkdownBreaks(Tail(text))

\* _get_desctiption
get_description(data, is_html) ==
  IF data.description # <<>>
  THEN LET description == ReplaceDoubleBreak(data.description)
       IN IF is_html THEN <<"<p>">> \o description \o <<"</p>">>
          ELSE <<"> ">> \o MarkdownBreaks(description) \o <<"  \n>  \n">>
  ELSE <<>>

\* _get_duration
get_duration(time) ==
  IF time >= 60
  THEN <<Str(time \div 60), " h">> \o
       (IF time % 60 # 0 THEN <<" ", Str(time % 60), " min">> ELSE <<>>)
  ELSE <<Str(time), " min">>

\* _get_format
get_format(data, is_html) ==
  IF TruthyStr(data.format)
  THEN LET media_format ==
             <<data.format[1]>> \o
             (IF TruthyInt(data.episodes)
              THEN <<" | ", Str(data.episodes[1]), " episode">> \o
                   (IF data.episodes[1] > 1 THEN <<"s">> ELSE <<>>) \o
                   (IF TruthyInt(data.duration)
                    THEN <<" (">> \o get_duration(data.duration[1]) \o
                         (IF data.episodes[1] > 1 THEN <<" per episode">> ELSE <<>>) \o
                         <<")">>
                    ELSE <<>>)
              ELSE <<>>) \o
             (IF TruthyInt(data.volumes)
              THEN <<" | ", Str(data.volumes[1]), " volumes">> ELSE <<>>) \o
             (IF TruthyInt(data.chapters)
              THEN <<" | ", Str(data.chapters[1]), " chapters">> ELSE <<>>)
       IN Line("Format:", "Format**:", media_format, is_html)
  ELSE <<>>

\* _get_status_next_episode
get_status_next_episode(data, is_html) ==
  LET broadcast ==
        IF TruthyInt(data.next_episode_num) /\ TruthyStr(data.next_episode_date)
        THEN <<" | Episode ", Str(data.next_episode_num[1]), " on ",
               data.next_episode_date[1]>>
        ELSE <<>>
  IN IF TruthyStr(data.status)
     THEN Line("Status:", "Status:**", <<data.status[1]>> \o broadcast, is_html)
     ELSE <<>>

\* _get_dates_season with no regard to the format
get_dates_season_any_format(data, is_html) ==
  LET dates ==
        IF data.start_date # <<>>
        THEN IF data.start_date = data.end_date
             THEN data.start_date
             ELSE data.start_date \o <<" to ">> \o
                  (IF data.end_date # <<>> THEN data.end_date ELSE <<"?">>)
        ELSE <<>>
      released ==
        IF TruthyStr(data.season) /\ TruthyInt(data.season_year)
        THEN (IF dates # <<>> THEN dates \o <<" | ">> ELSE <<>>) \o
             <<data.season[1], " ", Str(data.season_year[1])>>
        ELSE dates
  IN IF released # <<>> THEN Line("Released:", "Released:**", released, is_html)
     ELSE <<>>

\* _get_dates_season
get_dates_season(data, is_html) ==
  LET dates ==
        IF data.start_date # <<>>
        THEN IF data.start_date = data.end_date \/ data.format = Some(media_formats["MOVIE"])
             THEN data.start_date
             ELSE data.start_date \o <<" to ">> \o
                  (IF data.end_date # <<>> THEN data.end_date ELSE <<"?">>)
        ELSE <<>>
      released ==
        IF TruthyStr(data.season) /\ TruthyInt(data.season_year)
        THEN (IF dates # <<>> THEN dates \o <<" | ">> ELSE <<>>) \o
             <<data.season[1], " ", Str(data.season_year[1])>>
        ELSE dates
  IN IF released # <<>> THEN Line("Released:", "Released:**", released, is_html)
     ELSE <<>>

RECURSIVE StudioOrder(_)
\* the order in which the set of studios is iterated: by id
StudioOrder(studios) ==
  IF studios = {} THEN <<>>
  ELSE LET first == CHOOSE x \in studios : \A y \in studios : x[2] <= y[2]
       IN <<first>> \o StudioOrder(studios \ {first})

\* _get_studios
get_studios(data, is_html) ==
  IF data.studios # {}
  THEN LET order == StudioOrder(data.studios)
           studios == Join([k \in 1..Len(order) |->
                              get_link(<<"https://anilist.co/studio/", Str(order[k][2])>>,
                                       <<order[k][1]>>, is_html)],
                           <<", ">>)
           other_studios ==
             IF data.studio_number # 0
             THEN <<" + ", Str(data.studio_number), " other">> \o
                  (IF data.studio_number > 1 THEN <<"s">> ELSE <<>>)
             ELSE <<>>
       IN Line("Studios:", "Studios:**", studios \o other_studios, is_html)
  ELSE <<>>

\* _get_links
get_links(data, is_html) ==
  IF data.links # <<>> \/
     (data.trailer # <<>> /\ data.trailer[1] = "youtube" /\ data.trailer[2] # "")
  THEN LET text == IF is_html THEN <<"[clapper] <b>TRAILER</b>">>
                   ELSE <<"[clapper] **TRAILER**">>
           trailer == IF data.trailer # <<>>
                      THEN get_link(<<"https://www.youtube.com/watch?v=", data.trailer[2]>>,
                                    text, is_html)
                      ELSE <<>>
           links == IF data.links # <<>>
                    THEN (IF trailer # <<>> THEN trailer \o <<", ">> ELSE trailer) \o
                         Join([k \in 1..Len(data.links) |->
                                 get_link(<<data.links[k][2]>>, <<data.links[k][1]>>, is_html)],
                              <<", ">>)
                    ELSE trailer
       IN Line("External links:", "External links:**", links, is_html)
  ELSE <<>>

\* str.replace(' ', '%20') on the genres and tags the catalog responses of
\* the model use
UrlSpaces(name) ==
  IF name = "Slice of Life" THEN "Slice%20of%20Life"
  ELSE IF name = "Plot Twist" THEN "Plot%20Twist"
  ELSE name

\* _get_genres leaving the genres out of the Markdown body
get_genres_html_only(data, is_html) ==
  IF data.genres # <<>> /\ is_html
  THEN Line("Genres:", "Genres:**",
            Join([k \in 1..Len(data.genres) |->
                    get_link(<<"https://anilist.co/search/", MediaTypeOf(data), "/",
                               UrlSpaces(data.genres[k])>>, <<data.genres[k]>>, is_html)],
                 <<", ">>),
            is_html)
  ELSE <<>>

\* _get_genres
get_genres(data, is_html) ==
  IF data.genres # <<>>
  THEN Line("Genres:", "Genres:**",
            Join([k \in 1..Len(data.genres) |->
                    get_link(<<"https://anilist.co/search/", MediaTypeOf(data), "/",
                               UrlSpaces(data.genres[k])>>, <<data.genres[k]>>, is_html)],
                 <<", ">>),
            is_html)
  ELSE <<>>

\* _get_tags
get_tags(data, is_html) ==
  IF data.tags # <<>>
  THEN Line("Tags:", "Tags:**",
            Join([k \in 1..Len(data.tags) |->
                    get_link(<<"https://anilist.co/search/", MediaTypeOf(data), "?genres=",
                               UrlSpaces(data.tags[k])>>, <<data.tags[k]>>, is_html)],
                 <<", ">>),
            is_html)
  ELSE <<>>

\* _get_image, called with size (0, 230)
get_image(src, alt, is_html) ==
  IF is_html
  THEN <<"<img src=\"", src, "\" alt=\"">> \o alt \o <<"\" ", "height=\"230\" ", "/>">>
  ELSE <<"![">> \o alt \o <<"](", src, ")">>

\* _get_other_titles
get_other_titles(data, is_html) ==
  LET other_titles == (IF TruthyStr(data.title_en) THEN <<Fmt(data.title_ro), ", ">>
                       ELSE <<>>) \o <<Fmt(data.title_ja)>>
  IN IF is_html
     THEN <<"<blockquote><b>Other titles:</b> ">> \o other_titles \o <<"</blockquote>">>
     ELSE <<"> > **Other titles:** ">> \o other_titles \o <<"  \n>  \n">>

\* one entry of the loop of _get_related_entries
RelatedEntry(rel, i, is_html) ==
  LET base_url == StrLower(rel[2].media_type[1])
      al_link == get_link(<<"https://anilist.co/", base_url, "/", Str(rel[2].id)>>,
                          <<Fmt(MainTitle(rel[2]))>>, is_html)
      mal_link == IF TruthyInt(rel[2].id_mal)
                  THEN get_link(<<"https://myanimelist.net/", base_url, "/",
                                  Str(rel[2].id_mal[1])>>, <<"MAL">>, is_html)
                  ELSE <<>>
  IN IF is_html
     THEN <<"<blockquote>[", rel[1], "]<br>", Str(i), ". ">> \o al_link \o
          (IF mal_link # <<>> THEN <<" <sup>(">> \o mal_link \o <<")</sup>">> ELSE <<>>) \o
          <<"</blockquote>">>
     ELSE <<"> > ", Str(i), ". ">> \o al_link \o
          (IF mal_link # <<>> THEN <<" (">> \o mal_link \o <<")">> ELSE <<>>) \o
          <<" [", rel[1], "]  \n>  \n">>

\* _get_related_entries raises AttributeError on rel[1].media_type.lower()
\* when the node of a relation has a null type
RelatedRaises(data) ==
  \E k \in 1..Len(data.relations) : data.relations[k][2].media_type = None

\* _get_related_entries, for a record it does not raise on
get_related_entries(data, is_html) ==
  IF data.relations = <<>> THEN <<>>
  ELSE (IF is_html THEN <<"<b>Related entries:</b>">>
        ELSE <<"> **Related entries:**  \n>  \n">>) \o
       Join([k \in 1..Len(data.relations) |-> RelatedEntry(data.relations[k], k, is_html)],
            <<>>)

\* one entry of the loop of _get_other_results; i is the 0-based list index
OtherEntry(data, o, i, is_html) ==
  LET media_type == MediaTypeOf(data)
      al_link == get_link(<<"https://anilist.co/", media_type, "/", Str(o.id)>>,
                          <<Fmt(MainTitle(o))>>, is_html)
      mal_link == IF TruthyInt(o.id_mal)
                  THEN get_link(<<"https://myanimelist.net/", media_type, "/",
                                  Str(o.id_mal[1])>>, <<"MAL">>, is_html)
                  ELSE <<>>
  IN IF is_html
     THEN <<"<blockquote>", Str(i), ". ">> \o al_link \o
          (IF mal_link # <<>> THEN <<" <sup>(">> \o mal_link \o <<")</sup>">> ELSE <<>>) \o
          <<"</blockquote>">>
     ELSE <<"> > ", Str(i), ". ">> \o al_link \o
          (IF mal_link # <<>> THEN <<" (">> \o mal_link \o <<")">> ELSE <<>>) \o
          <<"  \n>  \n">>

\* _get_other_results starting its loop at the first candidate
get_other_results_from_first(data, other, is_html) ==
  IF Len(other) > 1
  THEN (IF is_html THEN <<"<b>Other results:</b>">>
        ELSE <<"> **Other results:**  \n>  \n">>) \o
       Join([k \in 1..Len(other) |-> OtherEntry(data, other[k], k - 1, is_html)],
            <<>>)
  ELSE <<>>

\* _get_other_results
get_other_results(data, other, is_html) ==
  IF Len(other) > 1
  THEN (IF is_html THEN <<"<b>Other results:</b>">>
        ELSE <<"> **Other results:**  \n>  \n">>) \o
       Join([k \in 1..(Len(other) - 1) |-> OtherEntry(data, other[k + 1], k, is_html)],
            <<>>)
  ELSE <<>>

\* the image cell of the main table and the image line of the body
ImagePart(data, is_html) ==
  IF TruthyStr(data.image)
  THEN LET alt == <<"Poster for ", Fmt(MainTitle(data))>>
       IN IF is_html
          THEN <<"<td>">> \o get_image(data.image[1], alt, TRUE) \o <<"</td>">>
          ELSE <<"> ">> \o get_image(data.image[1], alt, FALSE) \o <<"  \n>  \n">>
  ELSE <<>>

\* the sections of the details table, in the order of _prepare_message
DetailsContent(data, is_html) ==
  get_other_titles(data, is_html) \o
  get_format(data, is_html) \o
  get_status_next_episode(data, is_html) \o
  get_dates_season(data, is_html) \o
  get_studios(data, is_html) \o
  get_links(data, is_html) \o
  get_genres(data, is_html) \o
  get_tags(data, is_html)

\* _prepare_message: raised when a section renderer raises, else the
\* TextMessageEventContent with its two bodies
prepare_message(data, other) ==
  LET is_links == data.relations # <<>> \/ Len(other) > 1
  IN IF is_links /\ RelatedRaises(data)
     THEN [raised |-> TRUE, body |-> <<>>, html |-> <<>>]
     ELSE [raised |-> FALSE,
           body |-> get_titles(data, FALSE) \o
                    get_score(data, FALSE) \o
                    get_description(data, FALSE) \o
                    ImagePart(data, FALSE) \o
                    DetailsContent(data, FALSE) \o
                    (IF is_links
                     THEN get_related_entries(data, FALSE) \o
                          get_other_results(data, other, FALSE)
                     ELSE <<>>) \o
                    <<"> **Results from AniList**">>,
           html |-> <<"<blockquote>">> \o
                    <<"<table><tr>", "<td>">> \o
                    get_titles(data, TRUE) \o
                    get_score(data, TRUE) \o
                    get_description(data, TRUE) \o <<"</td>">> \o
                    ImagePart(data, TRUE) \o <<"</tr></table>">> \o
                    <<"<div>", "<details><summary><b>DETAILS</b></summary>",
                      "<table><tr><td>">> \o
                    DetailsContent(data, TRUE) \o
                    <<"</td></tr></table>", "</details>", "</div>">> \o
                    (IF is_links
                     THEN <<"<div>", "<details><summary><b>LINKS</b></summary>",
                            "<table><tr>", "<td>">> \o
                          get_related_entries(data, TRUE) \o <<"</td>", "<td>">> \o
                          get_other_results(data, other, TRUE) \o
                          <<"</td>", "</tr></table>", "</details>", "</div>">>
                     ELSE <<>>) \o
                    <<"<p><b><sub>Results from AniList</sub></b></p>", "</blockquote>">>]

\* ------------------------------------------------- inputs the model draws
\* the plugin configuration: a key is absent, an integer, a string or null
Configs ==
  { <<>>,
    [max_relations |-> [int |-> 2]],
    [max_results |-> [int |-> 0], max_relations |-> [int |-> -2]],
    [max_results |-> [str |-> "bad_value"], max_relations |-> [str |-> "2"]],
    [max_results |-> [null |-> TRUE]],
    [max_relations |-> [null |-> TRUE]] }

\* the raw command argument
RawTitles == { <<>>, <<" ">>, <<"Naruto">>, <<" ", "Naruto", " ">> }

\* the detail of an aiohttp ClientError
TransportErrors == { "Cannot connect to host" }

\* the exceptions upload_media raises that get_matrix_image_url handles
UploadErrors == { "ClientError", "ValueError", "MatrixResponseError" }

Media1 == [id |-> 101, idMal |-> Some(11),
           title |-> [romaji |-> Some("Naruto"), english |-> Some("Naruto EN")]]

Media2 == [id |-> 102, idMal |-> None,
           title |-> [romaji |-> Some("Boruto"), english |-> None]]

Media3 == [id |-> 103, idMal |-> Some(0),
           title |-> [romaji |-> Some("Naruto Shippuuden"), english |-> Some("")]]

SearchPage(media) == [errors |-> <<>>, data |-> Some([Page |-> [media |-> media]])]

TwoErrors == << [message |-> "Error message", status |-> 400],
                [message |-> "Error message 2", status |-> 400] >>

\* an error entry without a message
BareError == << [status |-> 500] >>

\* responses of the catalog to the search query
SearchResponses ==
  { [errors |-> TwoErrors, data |-> Some([Page |-> [media |-> <<Media1>>]])],
    [errors |-> BareError, data |-> None],
    [errors |-> <<>>, data |-> None],
    SearchPage(<<>>),
    SearchPage(<<Media1>>),
    SearchPage(<<Media2, Media1>>),
    SearchPage(<<Media1, Media2, Media3>>) }

Edge(kind, id, idMal, type) ==
  [relationType |-> kind,
   node |-> [id |-> id, idMal |-> idMal, type |-> type,
             title |-> [romaji |-> Some("Related"), english |-> None]]]

NullDate == [day |-> None, month |-> None, year |-> None]

\* a media entry of which the catalog knows next to nothing
BareFields ==
  [idMal |-> None, isAdult |-> FALSE,
   title |-> [romaji |-> Some("Romaji"), english |-> None, native |-> None],
   trailer |-> None, startDate |-> NullDate, endDate |-> NullDate,
   description |-> None, averageScore |-> None, meanScore |-> None,
   stats |-> [scoreDistribution |-> Some(<<>>)],
   favourites |-> None, format |-> None, status |-> None,
   genres |-> <<>>, tags |-> <<>>,
   episodes |-> None, season |-> None, seasonYear |-> None,
   nextAiringEpisode |-> None, duration |-> None,
   studios |-> [edges |-> <<>>], externalLinks |-> <<>>,
   volumes |-> None, chapters |-> None]

\* a media entry with every field filled in
RichFields ==
  [idMal |-> Some(20), isAdult |-> TRUE,
   title |-> [romaji |-> Some("Naruto"), english |-> Some("Naruto EN"),
              native |-> Some("NARUTO")],
   trailer |-> Some([site |-> "youtube", id |-> "abc123"]),
   startDate |-> [day |-> Some(4), month |-> Some(10), year |-> Some(2024)],
   endDate |-> [day |-> None, month |-> Some(3), year |-> Some(2025)],
   description |-> Some(<<"Ninja story.", "<br>", "<br>", "<br>", "(Source: X)",
                           "Notes:", "<br>", "- Some notes">>),
   averageScore |-> Some(85), meanScore |-> Some(84),
   stats |-> [scoreDistribution |-> Some(<<[amount |-> 10], [amount |-> 5]>>)],
   favourites |-> Some(7), format |-> Some("TV"), status |-> Some("RELEASING"),
   genres |-> <<"Action", "Slice of Life">>,
   tags |-> <<[name |-> "Ninja", isMediaSpoiler |-> FALSE],
              [name |-> "Plot Twist", isMediaSpoiler |-> TRUE]>>,
   episodes |-> Some(12), season |-> Some("FALL"), seasonYear |-> Some(2024),
   nextAiringEpisode |-> Some([airingAt |-> Some(1768143600), episode |-> Some(2)]),
   duration |-> Some(24),
   studios |-> [edges |-> <<[isMain |-> TRUE, node |-> [name |-> "Pierrot", id |-> 1]],
                            [isMain |-> FALSE, node |-> [name |-> "TV Tokyo", id |-> 2]]>>],
   externalLinks |-> <<[site |-> "Crunchyroll", url |-> "https://cr.example/naruto"]>>,
   volumes |-> Some(3), chapters |-> Some(27)]

DetailMedia(id, type, image, edges, fields) ==
  [id |-> id, type |-> Some(type),
   coverImage |-> [large |-> image],
   relations |-> [edges |-> edges]] @@ fields

ThreeEdges == << Edge("SEQUEL", 201, Some(21), Some("ANIME")),
                 Edge("FAKERELATION", 202, None, Some("MANGA")),
                 Edge("ADAPTATION", 203, Some(23), Some("MANGA")) >>

\* a relation edge whose node carries a null type
NullTypeEdges == << Edge("PREQUEL", 204, None, None) >>

DetailOf(media) == [errors |-> <<>>, data |-> Some([Media |-> media])]

\* responses of the catalog to the detail query for id and type
DetailResponses(id, type) ==
  { [errors |-> TwoErrors,
     data |-> Some([Media |-> DetailMedia(id, type, None, <<>>, BareFields)])],
    [errors |-> BareError, data |-> None],
    [errors |-> <<>>, data |-> None],
    DetailOf(DetailMedia(id, type, Some("https://img.example/large.png"), ThreeEdges,
                         RichFields)),
    DetailOf(DetailMedia(id, type, None, <<>>, BareFields)),
    DetailOf(DetailMedia(id, type, Some(""), ThreeEdges, RichFields)),
    DetailOf(DetailMedia(id, type, Some("https://img.example/large.png"), NullTypeEdges,
                         BareFields)) }

\* -------------------------------------------------------------------- state
VARIABLES
  config,            \* self.config
  log,               \* self.log: the error entries, oldest first
  pc,                \* where each invocation stands
  title,             \* the stripped title of each invocation
  media_type,        \* "ANIME" or "MANGA"
  results_json,      \* the search response, once received
  results,           \* the candidates parsed from it
  main_result_json,  \* the detail response, once received
  main_result,       \* the normalised record, None before and on errors
  out,               \* the outbound steps of each invocation, oldest first
  call,              \* a method applied on its own: its name and arguments
  ret                \* what that method returned, None before it has

vars == <<config, log, pc, title, media_type, results_json, results,
          main_result_json, main_result, out, call, ret>>

Init ==
  /\ config \in Configs
  /\ log = <<>>
  /\ pc = [i \in Invs |-> "idle"]
  /\ title = [i \in Invs |-> <<>>]
  /\ media_type = [i \in Invs |-> ""]
  /\ results_json = [i \in Invs |-> None]
  /\ results = [i \in Invs |-> <<>>]
  /\ main_result_json = [i \in Invs |-> None]
  /\ main_result = [i \in Invs |-> None]
  /\ out = [i \in Invs |-> <<>>]
  /\ call = [fn |-> ""]
  /\ ret = None

\* evt.reply(text)
ReplyText(text) == [op |-> "reply", composite |-> FALSE, body |-> text, html |-> <<>>]

\* evt.reply(content)
ReplyContent(c) == [op |-> "reply", composite |-> TRUE, body |-> c.body, html |-> c.html]

\* self.http.post of _al_get_results
PostCall(query, variables) == [op |-> "post", query |-> query, variables |-> variables]

\* self.http.get of get_matrix_image_url
GetCall(url) == [op |-> "get", url |-> url]

ConnectionFailed == "Connection to AniList API failed."

\* the commands anime and manga: strip the title, reply with the usage for
\* an empty one, else enter al_message_handler up to the search call; the
\* TypeError of get_max_results ends the invocation before the call
Command(i, raw, type) ==
  /\ pc[i] = "idle"
  /\ title' = [title EXCEPT ![i] = Strip(raw)]
  /\ media_type' = [media_type EXCEPT ![i] = type]
  /\ IF Strip(raw) = <<>>
     THEN /\ out' = [out EXCEPT ![i] =
                       <<ReplyText(<<"> **Usage:**  \n", "> !", StrLower(type),
                                     " <title>">>)>>]
          /\ pc' = [pc EXCEPT ![i] = "done"]
          /\ log' = log
     ELSE LET lim == get_max_results(config)
          IN IF lim.raised
             THEN /\ pc' = [pc EXCEPT ![i] = "raised"]
                  /\ UNCHANGED <<out, log>>
             ELSE /\ out' = [out EXCEPT ![i] =
                               <<PostCall("general", [search |-> Strip(raw),
                                                      perPage |-> lim.val,
                                                      type |-> type])>>]
                  /\ log' = log \o lim.log
                  /\ pc' = [pc EXCEPT ![i] = "search"]
  /\ UNCHANGED <<config, results_json, results, main_result_json, main_result>>

anime(i) == \E raw \in RawTitles : Command(i, raw, "ANIME")

manga(i) == \E raw \in RawTitles : Command(i, raw, "MANGA")

\* TransportFailure replying with the text of the original error
TransportFailure_leak(i, e) ==
  /\ log' = Append(log, <<"Connection to AniList API failed: ", e>>)
  /\ out' = [out EXCEPT ![i] = Append(@, ReplyText(<<"> ", e>>))]
  /\ pc' = [pc EXCEPT ![i] = "done"]

\* _al_get_results raises: the error is logged, the handler replies with
\* the text of the re-raised ClientError and returns
TransportFailure(i, e) ==
  /\ log' = Append(log, <<"Connection to AniList API failed: ", e>>)
  /\ out' = [out EXCEPT ![i] = Append(@, ReplyText(<<"> ", ConnectionFailed>>))]
  /\ pc' = [pc EXCEPT ![i] = "done"]

\* SearchParsed testing "results is None": an empty list reaches results[0]
SearchParsed_index_error(i, value) ==
  IF value = <<>>
  THEN /\ out' = out
       /\ pc' = [pc EXCEPT ![i] = "raised"]
  ELSE /\ out' = [out EXCEPT ![i] = Append(@,
                    PostCall(IF media_type[i] = "ANIME" THEN "anime" ELSE "manga",
                             [id |-> value[1].id]))]
       /\ pc' = [pc EXCEPT ![i] = "detail"]

\* SearchParsed asking for the details of results[-1]
SearchParsed_last(i, value) ==
  IF value = <<>>
  THEN /\ out' = [out EXCEPT ![i] = Append(@,
                    ReplyText(<<"Failed to find results for *">> \o title[i] \o <<"*">>))]
       /\ pc' = [pc EXCEPT ![i] = "done"]
  ELSE /\ out' = [out EXCEPT ![i] = Append(@,
                    PostCall(IF media_type[i] = "ANIME" THEN "anime" ELSE "manga",
                             [id |-> value[Len(value)].id]))]
       /\ pc' = [pc EXCEPT ![i] = "detail"]

\* if not results: reply and return; else the detail call for results[0].id
SearchParsed(i, value) ==
  IF value = <<>>
  THEN /\ out' = [out EXCEPT ![i] = Append(@,
                    ReplyText(<<"Failed to find results for *">> \o title[i] \o <<"*">>))]
       /\ pc' = [pc EXCEPT ![i] = "done"]
  ELSE /\ out' = [out EXCEPT ![i] = Append(@,
                    PostCall(IF media_type[i] = "ANIME" THEN "anime" ELSE "manga",
                             [id |-> value[1].id]))]
       /\ pc' = [pc EXCEPT ![i] = "detail"]

\* the search call returns or fails; the candidates are parsed and the
\* detail call is issued for the first of them
search_response(i) ==
  /\ pc[i] = "search"
  /\ \/ /\ \E e \in TransportErrors : TransportFailure(i, e)
        /\ UNCHANGED <<results_json, results>>
     \/ \E r \in SearchResponses :
          LET parsed == al_parse_results(r)
          IN /\ results_json' = [results_json EXCEPT ![i] = Some(r)]
             /\ log' = log \o parsed.log
             /\ IF parsed.raised
                THEN /\ pc' = [pc EXCEPT ![i] = "raised"]
                     /\ UNCHANGED <<results, out>>
                ELSE /\ results' = [results EXCEPT ![i] = parsed.value]
                     /\ SearchParsed(i, parsed.value)
  /\ UNCHANGED <<config, title, media_type, main_result_json, main_result>>

\* if not main_result: reply and return; if main_result.image: the image
\* download; else straight on to _prepare_message
DetailParsed(i, value) ==
  IF value = None
  THEN /\ out' = [out EXCEPT ![i] = Append(@, ReplyText(
                    <<"> There happened to be a problem while fetching results for **">>
                    \o title[i] \o <<"**">>))]
       /\ pc' = [pc EXCEPT ![i] = "done"]
  ELSE IF TruthyStr(value[1].image)
  THEN /\ out' = [out EXCEPT ![i] = Append(@, GetCall(value[1].image[1]))]
       /\ pc' = [pc EXCEPT ![i] = "image_get"]
  ELSE /\ out' = out
       /\ pc' = [pc EXCEPT ![i] = "render"]

\* the detail call returns or fails; the record is built and, when it has a
\* cover image, the image download is issued
detail_response(i) ==
  /\ pc[i] = "detail"
  /\ \/ /\ \E e \in TransportErrors : TransportFailure(i, e)
        /\ UNCHANGED <<main_result_json, main_result>>
     \/ \E r \in DetailResponses(results[i][1].id, media_type[i]) :
          LET parsed == al_parse_main_result(r, config)
          IN /\ main_result_json' = [main_result_json EXCEPT ![i] = Some(r)]
             /\ log' = log \o parsed.log
             /\ IF parsed.raised
                THEN /\ pc' = [pc EXCEPT ![i] = "raised"]
                     /\ UNCHANGED <<main_result, out>>
                ELSE /\ main_result' = [main_result EXCEPT ![i] = parsed.value]
                     /\ DetailParsed(i, parsed.value)
  /\ UNCHANGED <<config, title, media_type, results_json, results>>

\* SetImage also clearing the description of the record
SetImage_description(i, url) ==
  main_result' = [main_result EXCEPT ![i] =
                    Some([@[1] EXCEPT !.image = Some(url), !.description = None])]

\* main_result.image = <the value get_matrix_image_url returns>
SetImage(i, url) ==
  main_result' = [main_result EXCEPT ![i] = Some([@[1] EXCEPT !.image = Some(url)])]

\* ImageFailure writing to a record every invocation shares
ImageFailure_shared(i, entry) ==
  /\ log' = Append(log, entry)
  /\ main_result' = [k \in Invs |->
                       IF main_result[k] = None THEN None
                       ELSE Some([main_result[k][1] EXCEPT !.image = Some("")])]

\* an except clause of get_matrix_image_url: the entry is logged and the
\* initial image_url = "" is returned
ImageFailure(i, entry) ==
  /\ log' = Append(log, entry)
  /\ SetImage(i, "")

\* self.client.upload_media of get_matrix_image_url
UploadCall == [op |-> "upload", mime_type |-> "image/png", filename |-> "image.png"]

\* the image download returns, and the upload is issued, or it fails
image_get_response(i) ==
  /\ pc[i] = "image_get"
  /\ \/ /\ out' = [out EXCEPT ![i] = Append(@, UploadCall)]
        /\ pc' = [pc EXCEPT ![i] = "image_upload"]
        /\ UNCHANGED <<log, main_result>>
     \/ \E e \in TransportErrors :
          /\ ImageFailure(i, <<"Downloading image - connection failed: ", e>>)
          /\ pc' = [pc EXCEPT ![i] = "render"]
          /\ out' = out
  /\ UNCHANGED <<config, title, media_type, results_json, results, main_result_json>>

\* the entry get_matrix_image_url logs for an exception of upload_media
UploadFailureLog(kind) ==
  IF kind = "ClientError"
  THEN <<"Downloading image - connection failed: ", kind>>
  ELSE <<"Uploading image to Matrix server: ", kind>>

\* the upload returns the media reference or fails
image_upload_response(i) ==
  /\ pc[i] = "image_upload"
  /\ \/ /\ SetImage(i, "mxc://thumbnail.example.com/image.png")
        /\ log' = log
     \/ \E kind \in UploadErrors :
          ImageFailure(i, UploadFailureLog(kind))
  /\ pc' = [pc EXCEPT ![i] = "render"]
  /\ UNCHANGED <<config, title, media_type, results_json, results, main_result_json, out>>

\* bool(content) for the TextMessageEventContent _prepare_message returns:
\* an object without __bool__ or __len__
ContentTruthy(content) == TRUE

\* _prepare_message and the reply; an exception of a section renderer leaves
\* the handler
send_message(i) ==
  /\ pc[i] = "render"
  /\ LET content == prepare_message(main_result[i][1], results[i])
     IN IF content.raised
        THEN /\ pc' = [pc EXCEPT ![i] = "raised"]
             /\ out' = out
        ELSE /\ out' = [out EXCEPT ![i] = Append(@,
                          IF ContentTruthy(content) THEN ReplyContent(content)
                          ELSE ReplyText(
                            <<"> There happened to be a problem while preparing the summary.">>))]
             /\ pc' = [pc EXCEPT ![i] = "done"]
  /\ UNCHANGED <<config, log, title, media_type, results_json, results,
                 main_result_json, main_result>>

Step(i) ==
  \/ anime(i)
  \/ manga(i)
  \/ search_response(i)
  \/ detail_response(i)
  \/ image_get_response(i)
  \/ image_upload_response(i)
  \/ send_message(i)

Next == (\E i \in Active : Step(i)) /\ UNCHANGED <<call, ret>>

Spec == Init /\ [][Next]_vars

\* ------------------------------------------------ invocations in flight
\* the configurations of the interleaved runs: a relation limit, and the
\* null limit on which _al_parse_main_result raises
ConfigsAll ==
  { [max_relations |-> [int |-> 2]],
    [max_relations |-> [null |-> TRUE]] }

\* the search responses of the interleaved runs: candidates, or an error
\* envelope
SearchResponsesAll ==
  { SearchPage(<<Media2, Media1>>),
    [errors |-> BareError, data |-> None] }

\* the detail responses of the interleaved runs: an entry with a cover
\* image, or an error envelope
DetailResponsesAll(id, type) ==
  { DetailOf(DetailMedia(id, type, Some("https://img.example/large.png"), ThreeEdges,
                         RichFields)),
    [errors |-> BareError, data |-> None] }

\* every response an invocation has received is one of the above
ResponsesAll ==
  \A i \in Invs :
    /\ results_json[i] # None => results_json[i][1] \in SearchResponsesAll
    /\ main_result_json[i] # None =>
         main_result_json[i][1] \in DetailResponsesAll(results[i][1].id, media_type[i])

InitAll == Init /\ config \in ConfigsAll

\* the event loop runs one handler up to its next await, then any handler
\* whose awaited response has arrived
NextAll == (\E i \in Invs : Step(i)) /\ ResponsesAll' /\ UNCHANGED <<call, ret>>

SpecAll == InitAll /\ [][NextAll]_vars

\* ------------------------------------------- the methods applied on their own
\* longest list of edges, tags, buckets or description tokens drawn
MaxLen == 3

\* the lists over S of at most n elements
Lists(S, n) == UNION {[1..k -> S] : k \in 0..n}

\* relation edges: two kinds of the table twice over, its first and its last
\* kind, and two kinds it does not hold
EdgePool ==
  { Edge("SEQUEL", 301, Some(31), Some("ANIME")),
    Edge("SEQUEL", 302, None, Some("MANGA")),
    Edge("ADAPTATION", 303, Some(33), Some("MANGA")),
    Edge("CHARACTER", 304, None, Some("ANIME")),
    Edge("FAKERELATION", 305, None, Some("MANGA")),
    Edge("MUSIC_VIDEO", 306, None, Some("ANIME")) }

\* more edges than the default limit keeps
FiveEdges ==
  << Edge("MUSIC_VIDEO", 306, None, Some("ANIME")),
     Edge("SEQUEL", 301, Some(31), Some("ANIME")),
     Edge("CHARACTER", 304, None, Some("ANIME")),
     Edge("SEQUEL", 302, None, Some("MANGA")),
     Edge("ADAPTATION", 303, Some(33), Some("MANGA")) >>

RelationLists == Lists(EdgePool, MaxLen) \cup {FiveEdges}

\* studio edges: a studio as main and as producer, a second main studio, a
\* producer
StudioPool ==
  { [isMain |-> TRUE, node |-> [name |-> "Science SARU", id |-> 6145]],
    [isMain |-> FALSE, node |-> [name |-> "Science SARU", id |-> 6145]],
    [isMain |-> TRUE, node |-> [name |-> "Shueisha", id |-> 6570]],
    [isMain |-> FALSE, node |-> [name |-> "Dentsu", id |-> 53]] }

\* the pieces of a description
DescriptionTokens == { "Story.", "<br>", "Notes:", "Note:" }

Descriptions == {None} \cup {Some(t) : t \in Lists(DescriptionTokens, MaxLen)}

\* a component of a fuzzy date: null, zero or a value
Days == { None, Some(0), Some(4) }

Months == { None, Some(10), Some(12) }

Years == { None, Some(2024) }

\* the stats object: without a histogram, with a null one, with buckets
Histograms ==
  { [none |-> TRUE], [scoreDistribution |-> None] } \cup
  { [scoreDistribution |-> Some(h)] :
      h \in Lists({[amount |-> 0], [amount |-> 9], [amount |-> 27]}, MaxLen) }

TagPool ==
  { [name |-> "Ninja", isMediaSpoiler |-> FALSE],
    [name |-> "Shounen", isMediaSpoiler |-> FALSE],
    [name |-> "Plot Twist", isMediaSpoiler |-> TRUE],
    [name |-> "Tragedy", isMediaSpoiler |-> TRUE] }

\* a configured value: an integer, a float in tenths, a string, null
ConfigValues ==
  { [int |-> -2], [int |-> 0], [int |-> 1], [int |-> 2], [int |-> 5],
    [tenths |-> 20], [tenths |-> 25], [tenths |-> -5],
    [str |-> "2"], [str |-> "0"], [str |-> "-3"], [str |-> " 7 "],
    [str |-> "bad_value"], [str |-> "2.5"], [str |-> ""],
    [null |-> TRUE] }

\* self.config with max_relations absent or set
RelationConfigs == {<<>>} \cup {[max_relations |-> v] : v \in ConfigValues}

\* the detail payloads _al_parse_main_result is applied to, each with the
\* configuration in force
NormalizerInputs ==
  { [data |-> DetailOf(DetailMedia(1, "ANIME", None, e, BareFields)), cfg |-> c] :
      e \in RelationLists, c \in RelationConfigs } \cup
  { [data |-> DetailOf(DetailMedia(1, t, None, ThreeEdges,
                                   [f EXCEPT !.stats = h])), cfg |-> <<>>] :
      t \in {"ANIME", "MANGA"}, f \in {BareFields, RichFields}, h \in Histograms } \cup
  { [data |-> DetailOf(DetailMedia(1, t, None, <<>>,
                                   [RichFields EXCEPT !.tags = g])), cfg |-> <<>>] :
      t \in {"ANIME", "MANGA"}, g \in Lists(TagPool, MaxLen) }

\* the record _al_parse_main_result builds from a payload under the default
\* configuration
RecordOf(media) == BuildRecord(media, <<>>).value[1]

\* records that differ in the two scores, the votes and the favourites
ScoreRecords ==
  { RecordOf(DetailMedia(1, "ANIME", None, <<>>,
                         [BareFields EXCEPT !.averageScore = a, !.meanScore = m,
                                            !.favourites = f,
                                            !.stats = [scoreDistribution |-> Some(h)]])) :
      a \in {None, Some(0), Some(84)}, m \in {None, Some(85)},
      f \in {None, Some(0), Some(69)}, h \in {<<>>, <<[amount |-> 2137]>>} }

\* records that differ in the two dates, the format, the season and its year
DateRecords ==
  { RecordOf(DetailMedia(1, "ANIME", None, <<>>,
                         [BareFields EXCEPT !.startDate = sd, !.endDate = ed,
                                            !.format = fm, !.season = se,
                                            !.seasonYear = sy])) :
      sd \in {NullDate, [day |-> Some(4), month |-> Some(10), year |-> Some(2024)]},
      ed \in {NullDate, [day |-> Some(4), month |-> Some(10), year |-> Some(2024)],
               [day |-> Some(20), month |-> Some(12), year |-> Some(2024)]},
      fm \in {None, Some("TV"), Some("MOVIE")},
      se \in {None, Some("FALL")}, sy \in {None, Some(2024)} }

\* records that differ in the trailer and the external links
LinkRecords ==
  { RecordOf(DetailMedia(1, "ANIME", None, <<>>,
                         [BareFields EXCEPT !.trailer = t, !.externalLinks = l])) :
      t \in {None, Some([site |-> "youtube", id |-> "abc123"]),
              Some([site |-> "dailymotion", id |-> "x8abc"]),
              Some([site |-> "youtube", id |-> ""])},
      l \in {<<>>,
              <<[site |-> "Crunchyroll", url |-> "https://cr.example/naruto"]>>,
              <<[site |-> "Crunchyroll", url |-> "https://cr.example/naruto"],
                [site |-> "Official Site", url |-> "https://naruto.example"]>>} }

\* more tags than ten
ElevenTags ==
  [k \in 1..11 |->
     [name |-> <<"Ninja", "Shounen", "Male Protagonist", "Super Power", "Martial Arts",
                 "Coming of Age", "Tragedy", "War", "Orphan", "Revenge", "Time Skip">>[k],
      isMediaSpoiler |-> FALSE]]

\* records that differ in the tags
TagRecords ==
  { RecordOf(DetailMedia(1, "ANIME", None, <<>>, [RichFields EXCEPT !.tags = g])) :
      g \in Lists(TagPool, MaxLen) \cup {ElevenTags} }

\* records that differ in the description
DescriptionRecords ==
  { RecordOf(DetailMedia(1, "ANIME", None, <<>>, [BareFields EXCEPT !.description = d])) :
      d \in Descriptions }

\* the candidates of a search page
CandidateLists ==
  { al_parse_results(SearchPage(m)).value :
      m \in {<<Media1>>, <<Media1, Media2>>, <<Media1, Media2, Media3>>} }

\* records with and without an image, relations and the optional details
MessageRecords ==
  { RecordOf(DetailMedia(101, t, i, e, f)) :
      t \in {"ANIME", "MANGA"},
      i \in {None, Some(""), Some("mxc://example.org/poster")},
      e \in {<<>>, ThreeEdges, NullTypeEdges}, f \in {BareFields, RichFields} }
  \cup ScoreRecords \cup LinkRecords \cup DescriptionRecords

\* the names and defaults _get_max_value is called with
MaxValueNames == { "max_results", "max_relations", "test" }

MaxValueDefaults == { 4, 5 }

\* the state before one method is applied to one input
InitFn ==
  /\ log = <<>>
  /\ pc = [i \in Invs |-> "idle"]
  /\ title = [i \in Invs |-> <<>>]
  /\ media_type = [i \in Invs |-> ""]
  /\ results_json = [i \in Invs |-> None]
  /\ results = [i \in Invs |-> <<>>]
  /\ main_result_json = [i \in Invs |-> None]
  /\ main_result = [i \in Invs |-> None]
  /\ out = [i \in Invs |-> <<>>]
  /\ ret = None
  /\ \/ /\ config = <<>>
        /\ \/ \E e \in RelationLists :
                call = [fn |-> "_parse_relations", arg |-> [edges |-> e]]
           \/ \E e \in Lists(StudioPool, MaxLen) :
                call = [fn |-> "_parse_studios", arg |-> [studios |-> [edges |-> e]]]
           \/ \E d \in Descriptions :
                call = [fn |-> "_parse_desctiption", arg |-> [description |-> d]]
           \/ \E d \in Days, m \in Months, y \in Years,
                 k \in {"startDate", "endDate"} :
                call = [fn |-> "_parse_date",
                        arg |-> (k :> [day |-> d, month |-> m, year |-> y]),
                        date_key |-> k]
           \/ \E r \in ScoreRecords, h \in BOOLEAN :
                call = [fn |-> "_get_score", data |-> r, is_html |-> h]
           \/ \E r \in DescriptionRecords, h \in BOOLEAN :
                call = [fn |-> "_get_desctiption", data |-> r, is_html |-> h]
           \/ \E r \in DateRecords, h \in BOOLEAN :
                call = [fn |-> "_get_dates_season", data |-> r, is_html |-> h]
           \/ \E r \in LinkRecords, h \in BOOLEAN :
                call = [fn |-> "_get_links", data |-> r, is_html |-> h]
           \/ \E r \in TagRecords, h \in BOOLEAN :
                call = [fn |-> "_get_tags", data |-> r, is_html |-> h]
           \/ \E r \in MessageRecords, o \in CandidateLists :
                call = [fn |-> "_prepare_message", data |-> r, other |-> o]
     \/ \E x \in NormalizerInputs :
          /\ config = x.cfg
          /\ call = [fn |-> "_al_parse_main_result", arg |-> x.data]
     \/ \E n \in MaxValueNames, d \in MaxValueDefaults :
          /\ config \in {<<>>} \cup {(n :> v) : v \in ConfigValues}
          /\ call = [fn |-> "_get_max_value", name |-> n, default |-> d]

Handler == <<pc, title, media_type, results_json, results, main_result_json,
             main_result, out>>

apply_parse_relations ==
  /\ call.fn = "_parse_relations" /\ ret = None
  /\ ret' = Some(parse_relations(call.arg.edges))
  /\ UNCHANGED <<config, log, call, Handler>>

apply_parse_studios ==
  /\ call.fn = "_parse_studios" /\ ret = None
  /\ ret' = Some(parse_studios(call.arg))
  /\ UNCHANGED <<config, log, call, Handler>>

apply_parse_desctiption ==
  /\ call.fn = "_parse_desctiption" /\ ret = None
  /\ ret' = Some(parse_description(call.arg))
  /\ UNCHANGED <<config, log, call, Handler>>

apply_parse_date ==
  /\ call.fn = "_parse_date" /\ ret = None
  /\ ret' = Some(parse_date(call.arg, call.date_key))
  /\ UNCHANGED <<config, log, call, Handler>>

apply_al_parse_main_result ==
  /\ call.fn = "_al_parse_main_result" /\ ret = None
  /\ LET parsed == al_parse_main_result(call.arg, config)
     IN /\ ret' = Some([raised |-> parsed.raised, value |-> parsed.value])
        /\ log' = log \o parsed.log
  /\ UNCHANGED <<config, call, Handler>>

apply_get_max_value ==
  /\ call.fn = "_get_max_value" /\ ret = None
  /\ LET r == get_max_value(config, call.name, call.default)
     IN /\ ret' = Some([raised |-> r.raised, val |-> r.val])
        /\ log' = log \o r.log
  /\ UNCHANGED <<config, call, Handler>>

apply_get_score ==
  /\ call.fn = "_get_score" /\ ret = None
  /\ ret' = Some(get_score(call.data, call.is_html))
  /\ UNCHANGED <<config, log, call, Handler>>

apply_get_desctiption ==
  /\ call.fn = "_get_desctiption" /\ ret = None
  /\ ret' = Some(get_description(call.data, call.is_html))
  /\ UNCHANGED <<config, log, call, Handler>>

apply_get_dates_season ==
  /\ call.fn = "_get_dates_season" /\ ret = None
  /\ ret' = Some(get_dates_season(call.data, call.is_html))
  /\ UNCHANGED <<config, log, call, Handler>>

apply_get_links ==
  /\ call.fn = "_get_links" /\ ret = None
  /\ ret' = Some(get_links(call.data, call.is_html))
  /\ UNCHANGED <<config, log, call, Handler>>

apply_get_tags ==
  /\ call.fn = "_get_tags" /\ ret = None
  /\ ret' = Some(get_tags(call.data, call.is_html))
  /\ UNCHANGED <<config, log, call, Handler>>

apply_prepare_message ==
  /\ call.fn = "_prepare_message" /\ ret = None
  /\ ret' = Some(prepare_message(call.data, call.other))
  /\ UNCHANGED <<config, log, call, Handler>>

NextFn ==
  \/ apply_parse_relations
  \/ apply_parse_studios
  \/ apply_parse_desctiption
  \/ apply_parse_date
  \/ apply_al_parse_main_result
  \/ apply_get_max_value
  \/ apply_get_score
  \/ apply_get_desctiption
  \/ apply_get_dates_season
  \/ apply_get_links
  \/ apply_get_tags
  \/ apply_prepare_message

SpecFn == InitFn /\ [][NextFn]_vars

\* ------------------------------------------------------------ observations
\* the kinds of the outbound steps of invocation i, oldest first
Ops(i) == [k \in 1..Len(out[i]) |-> out[i][k].op]

\* the last outbound step of invocation i
LastOut(i) == out[i][Len(out[i])]

NoMatchReply(i) == ReplyText(<<"Failed to find results for *">> \o title[i] \o <<"*">>)

FetchProblemReply(i) ==
  ReplyText(<<"> There happened to be a problem while fetching results for **">>
            \o title[i] \o <<"**">>)

PrepareProblemReply ==
  ReplyText(<<"> There happened to be a problem while preparing the summary.">>)

\* the handler of invocation i has returned or an exception has left it
Ended(i) == pc[i] \in {"done", "raised"}

\* the search call of invocation i failed in the transport
SearchFailed(i) == pc[i] = "done" /\ title[i] # <<>> /\ results_json[i] = None

\* the detail call of invocation i failed in the transport
DetailFailed(i) == pc[i] = "done" /\ results[i] # <<>> /\ main_result_json[i] = None

\* some entry of the log reports a transport failure of the catalog
TransportLogged ==
  \E k \in 1..Len(log) : \E e \in TransportErrors :
    log[k] = <<"Connection to AniList API failed: ", e>>

\* entry is "Error parsing results: " followed by the messages of errors in
\* list order with "; " between two of them
JoinedMessages(entry, errors) ==
  /\ Len(entry) = 2 * Len(errors)
  /\ entry[1] = "Error parsing results: "
  /\ \A k \in 1..Len(errors) :
       /\ entry[2 * k] = IF "message" \in DOMAIN errors[k] THEN errors[k].message ELSE ""
       /\ k > 1 => entry[2 * k - 1] = "; "

\* some entry of the log reports an error envelope
EnvelopeLogged == \E k \in 1..Len(log) : log[k][1] = "Error parsing results: "

\* the image step of invocation i failed: the record had a cover image and
\* its image reference is now empty
ImageFailed(i) ==
  /\ main_result[i] # None
  /\ TruthyStr(main_result_json[i][1].data[1].Media.coverImage.large)
  /\ main_result[i][1].image = Some("")

\* some entry of the log reports a failure of the image step
ImageFailureLogged ==
  \E k \in 1..Len(log) :
    log[k][1] \in {"Downloading image - connection failed: ",
                   "Uploading image to Matrix server: "}

\* the tokens of a rendered text
Tokens(text) == {text[k] : k \in 1..Len(text)}

\* a rendered text carries an image
HasImage(text) == "<img src=\"" \in Tokens(text) \/ "![" \in Tokens(text)

\* the place of an outbound step in the order of one invocation
Rank(step) ==
  IF step.op = "post" THEN (IF step.query = "general" THEN 1 ELSE 2)
  ELSE IF step.op = "get" THEN 3
  ELSE IF step.op = "upload" THEN 4
  ELSE 5

\* ------------------------------------------------------------------ claims
\* C1: whenever the search response parses to an empty candidate list, the
\* invocation has issued the search call only, has sent the no-matches reply
\* and has stopped: no detail query, no image fetch.
C1_EmptyListStops ==
  \A i \in Invs :
    (/\ results_json[i] # None
     /\ ~al_parse_results(results_json[i][1]).raised
     /\ al_parse_results(results_json[i][1]).value = <<>>)
    => /\ pc[i] = "done"
       /\ main_result_json[i] = None
       /\ Ops(i) = <<"post", "reply">>
       /\ out[i][1].query = "general"
       /\ out[i][2] = NoMatchReply(i)

C1_Witness ==
  \E i \in Invs :
    /\ results_json[i] = Some(SearchPage(<<>>))
    /\ pc[i] = "done"

\* C2 (as claimed): an invocation that has ended has sent exactly one reply,
\* whatever the outcome of its calls, of decoding, of the image step and of
\* rendering.
C2_ExactlyOneReply ==
  \A i \in Invs :
    Ended(i) => Cardinality({k \in 1..Len(out[i]) : out[i][k].op = "reply"}) = 1

C4_DetailErrorEnvelope ==
  \A i \in Invs :
    (main_result_json[i] # None /\ main_result_json[i][1].errors # <<>>)
    => /\ ~al_parse_main_result(main_result_json[i][1], config).raised
       /\ al_parse_main_result(main_result_json[i][1], config).value = None
       /\ main_result[i] = None
       /\ pc[i] = "done"
       /\ Ops(i) = <<"post", "post", "reply">>
       /\ LastOut(i) = FetchProblemReply(i)

C4_Witness ==
  \E i \in Invs :
    /\ main_result_json[i] # None
    /\ main_result_json[i][1].errors # <<>>
    /\ main_result_json[i][1].data # None
    /\ pc[i] = "done"

\* C5: the step that receives a response with a non-empty error list, with
\* or without a data payload, leaves the candidate list empty, respectively
\* the record absent, and adds exactly one entry to the log: the messages in
\* list order joined by "; ".
C5_ErrorEnvelopeVoidsData ==
  [][\A i \in Invs :
       /\ (results_json[i] = None /\ results_json'[i] # None
           /\ results_json'[i][1].errors # <<>>)
          => /\ results'[i] = <<>>
             /\ pc'[i] # "raised"
             /\ Len(log') = Len(log) + 1
             /\ JoinedMessages(log'[Len(log')], results_json'[i][1].errors)
       /\ (main_result_json[i] = None /\ main_result_json'[i] # None
           /\ main_result_json'[i][1].errors # <<>>)
          => /\ main_result'[i] = None
             /\ pc'[i] # "raised"
             /\ Len(log') = Len(log) + 1
             /\ JoinedMessages(log'[Len(log')], main_result_json'[i][1].errors)]_vars

C5_Witness ==
  \E i \in Invs :
    /\ results_json[i] # None
    /\ results_json[i][1].errors = TwoErrors
    /\ results_json[i][1].data # None
    /\ log # <<>>
    /\ log[Len(log)] = <<"Error parsing results: ", "Error message", "; ",
                         "Error message 2">>

\* C6 (as claimed): a response without errors and without a data payload, to
\* the search call or to the detail call, does not make the parser raise: the
\* handler ends with a reply.
C6_NullDataIsDecodeFailure ==
  \A i \in Invs :
    (\/ (results_json[i] # None /\ results_json[i][1].errors = <<>>
         /\ results_json[i][1].data = None)
     \/ (main_result_json[i] # None /\ main_result_json[i][1].errors = <<>>
         /\ main_result_json[i][1].data = None))
    => /\ pc[i] = "done"
       /\ LastOut(i).op = "reply"

\* C7 (as claimed): the reply to an error envelope on the search response
\* differs from the reply to an empty search page.
C7_RepliesDiffer ==
  \A i \in Invs :
    (results_json[i] # None /\ results_json[i][1].errors # <<>> /\ Ended(i))
    => LastOut(i) # NoMatchReply(i)

\* C7 (amended): an error envelope on the search response is logged and
\* ends the invocation after the search call with the same "Failed to find
\* results" reply as an empty search page; only the log tells them apart.
C7_SameReplyLogDiffers ==
  \A i \in Invs :
    results_json[i] # None
    => /\ results_json[i][1].errors # <<>>
          => /\ pc[i] = "done"
             /\ Ops(i) = <<"post", "reply">>
             /\ LastOut(i) = NoMatchReply(i)
             /\ EnvelopeLogged
       /\ results_json[i] = Some(SearchPage(<<>>))
          => /\ LastOut(i) = NoMatchReply(i)
             /\ ~EnvelopeLogged

C7_Witness ==
  \E i \in Invs :
    /\ results_json[i] # None
    /\ results_json[i][1].errors = BareError
    /\ pc[i] = "done"

\* C8 (as claimed): after a failure of the image step the failure is logged,
\* the image reference is empty, and the invocation goes on to render and to
\* send the composite message, without an image in either body.
C8_ImageFailureDegrades ==
  \A i \in Invs :
    ImageFailed(i)
    => /\ ImageFailureLogged
       /\ pc[i] \in {"render", "done"}
       /\ pc[i] = "done"
          => /\ LastOut(i).composite
             /\ ~HasImage(LastOut(i).body)
             /\ ~HasImage(LastOut(i).html)

\* C9 (as claimed): when a section renderer fails, the invocation ends with
\* the "problem while preparing the summary" reply.
C9_RenderFailureReported ==
  \A i \in Invs :
    (/\ Ended(i)
     /\ main_result[i] # None
     /\ prepare_message(main_result[i][1], results[i]).raised)
    => LastOut(i) = PrepareProblemReply

\* C10: the outbound steps of an invocation are in the order search call,
\* detail call, image fetch, upload, reply, each at most once; the detail
\* call asks for the id of the first candidate, and an upload follows a
\* fetch only.
C10_StepOrder ==
  \A i \in Invs :
    /\ \A k \in 1..Len(out[i]) : \A l \in 1..Len(out[i]) :
         k < l => Rank(out[i][k]) < Rank(out[i][l])
    /\ \A k \in 1..Len(out[i]) :
         /\ Rank(out[i][k]) = 2
            => /\ k = 2 /\ Rank(out[i][1]) = 1
               /\ out[i][k].variables.id = results[i][1].id
               /\ out[i][k].query = (IF media_type[i] = "ANIME" THEN "anime" ELSE "manga")
         /\ Rank(out[i][k]) = 3 => k = 3
         /\ Rank(out[i][k]) = 4 => k = 4 /\ Rank(out[i][3]) = 3

C10_Witness ==
  \E i \in Invs :
    /\ Ops(i) = <<"post", "post", "get", "upload", "reply">>
    /\ Len(results[i]) > 1
    /\ results[i][1].id = 102

\* ---------------------------------------------- the methods on their own
\* the method fn has been applied and has returned
Returned(fn) == call.fn = fn /\ ret # None

\* whether the table holds a relation kind
KnownKind(kind) == kind \in DOMAIN relation_types

\* edges sort in the same class when the table gives them the same
\* priority or holds neither
SameClass(a, b) ==
  IF KnownKind(a.relationType) /\ KnownKind(b.relationType)
  THEN relation_types[a.relationType][2] = relation_types[b.relationType][2]
  ELSE ~KnownKind(a.relationType) /\ ~KnownKind(b.relationType)

\* the edge of the pool a parsed relation was made from
EdgeOf(entry) == CHOOSE e \in EdgePool : e.node.id = entry[2].id

\* the ids of the entries of s that sort in the class of edge e
ClassIds(s, e) ==
  LET same == SelectSeq(s, LAMBDA x : SameClass(x, e))
  IN [k \in 1..Len(same) |-> same[k].node.id]

\* str.title() of the kinds the table does not hold
TitleCased == ("FAKERELATION" :> "Fakerelation") @@ ("MUSIC_VIDEO" :> "Music_Video")

\* C11: _parse_relations returns the raw edges stably sorted by the priority
\* table: priorities of known kinds never decrease along the output, edges
\* of one priority keep their raw order, no edge of an unknown kind comes
\* before an edge of a known kind, a known kind is labelled from the table
\* and an unknown kind with its kind string title-cased
C11_StableSort ==
  Returned("_parse_relations") =>
    LET raw == call.arg.edges
        parsed == ret[1]
        sorted == [k \in 1..Len(parsed) |-> EdgeOf(parsed[k])]
    IN /\ Len(parsed) = Len(raw)
       /\ \A k, l \in 1..Len(sorted) :
            k < l =>
              /\ KnownKind(sorted[l].relationType) => KnownKind(sorted[k].relationType)
              /\ KnownKind(sorted[l].relationType) =>
                   relation_types[sorted[k].relationType][2]
                     <= relation_types[sorted[l].relationType][2]
       /\ \A e \in EdgePool : ClassIds(sorted, e) = ClassIds(raw, e)
       /\ \A k \in 1..Len(parsed) :
            /\ parsed[k][1] =
                 IF KnownKind(sorted[k].relationType)
                 THEN relation_types[sorted[k].relationType][1]
                 ELSE TitleCased[sorted[k].relationType]
            /\ parsed[k][2] =
                 SearchResult(sorted[k].node.id, sorted[k].node.idMal,
                              sorted[k].node.title.english, sorted[k].node.title.romaji,
                              sorted[k].node.type)

\* two edges of one priority in raw order behind an edge of an unknown kind
C11_Witness ==
  /\ Returned("_parse_relations")
  /\ Len(call.arg.edges) = 3
  /\ ~KnownKind(call.arg.edges[1].relationType)
  /\ call.arg.edges[2].relationType = "SEQUEL" /\ call.arg.edges[2].node.id = 302
  /\ call.arg.edges[3].relationType = "SEQUEL" /\ call.arg.edges[3].node.id = 301
  /\ ret[1][1][2].id = 302 /\ ret[1][2][2].id = 301
  /\ ret[1][3][1] = "Music_Video"

\* _al_parse_main_result has returned a record
Normalized == Returned("_al_parse_main_result") /\ ~ret[1].raised /\ ret[1].value # None

\* the payload the record was built from
Payload == call.arg.data[1].Media

\* the record built
Record == ret[1].value[1]

\* C12: the relations of the record are the first entries of the
\* priority-sorted edge list, as many as the effective relation limit
\* allows; the limit is at least 1 and no dropped edge sorts before a kept
\* one
C12_RelationsPrefix ==
  Normalized =>
    LET sorted == SortedStable(Payload.relations.edges)
        limit == get_max_relations(config).val
        kept == Len(Record.relations)
    IN /\ limit >= 1
       /\ kept <= limit
       /\ kept = IF Len(sorted) <= limit THEN Len(sorted) ELSE limit
       /\ Record.relations = SubSeq(parse_relations(Payload.relations.edges), 1, kept)
       /\ \A k \in 1..kept : \A d \in (kept + 1)..Len(sorted) :
            RelationPriority(sorted[k]) <= RelationPriority(sorted[d])

\* five edges under the default limit: four are kept and the edge of an
\* unknown kind, first in raw order, is the one dropped
C12_Witness ==
  /\ Normalized
  /\ config = <<>>
  /\ Payload.relations.edges = FiveEdges
  /\ Len(Record.relations) = 4
  /\ Record.relations[1][1] = "Adaptation"
  /\ \A k \in 1..4 : Record.relations[k][1] # "Music_Video"

\* the positions of the studio edges flagged main
MainEdges(edges) == {k \in 1..Len(edges) : edges[k].isMain}

\* C13: _parse_studios returns the (name, id) pairs of the edges flagged
\* main, or of the first edge alone when none is flagged, and the number of
\* edges less the size of that set; an empty edge list gives the empty set
\* and 0, and one flagged edge gives that studio and the number of edges
\* less 1
C13_MainStudios ==
  Returned("_parse_studios") =>
    LET edges == call.arg.studios.edges
        studios == ret[1][1]
        studio_number == ret[1][2]
    IN /\ edges = <<>> => studios = {} /\ studio_number = 0
       /\ edges # <<>> =>
            /\ \A p \in studios : \E k \in 1..Len(edges) :
                 /\ p = <<edges[k].node.name, edges[k].node.id>>
                 /\ IF MainEdges(edges) # {} THEN edges[k].isMain ELSE k = 1
            /\ \A k \in MainEdges(edges) :
                 <<edges[k].node.name, edges[k].node.id>> \in studios
            /\ MainEdges(edges) = {} =>
                 studios = {<<edges[1].node.name, edges[1].node.id>>}
            /\ studio_number = Len(edges) - Cardinality(studios)
       /\ Cardinality(MainEdges(edges)) = 1 =>
            /\ \E k \in MainEdges(edges) :
                 studios = {<<edges[k].node.name, edges[k].node.id>>}
            /\ studio_number = Len(edges) - 1

\* the main studio listed twice as main and once more as a producer: one
\* studio selected, two edges left over
C13_Witness ==
  /\ Returned("_parse_studios")
  /\ Len(call.arg.studios.edges) = 3
  /\ Cardinality(MainEdges(call.arg.studios.edges)) = 2
  /\ \A k \in 1..3 : call.arg.studios.edges[k].node.id = 6145
  /\ ret[1] = <<{<<"Science SARU", 6145>>}, 2>>

\* whether a marker occurs in a text
Occurs(marker, text) == \E k \in 1..Len(text) : text[k] = marker

\* the position of the first occurrence of a marker that occurs
FirstOf(marker, text) ==
  CHOOSE k \in 1..Len(text) :
    text[k] = marker /\ \A j \in 1..(k - 1) : text[j] # marker

\* C14: the description is the raw one up to its first "Notes:" when it has
\* one, else up to its first "Note:" when it has one, else the raw one
\* whole; a null description gives the empty string
C14_DescriptionCut ==
  Returned("_parse_desctiption") =>
    LET raw == call.arg.description
    IN IF raw = None THEN ret[1] = <<>>
       ELSE IF Occurs("Notes:", raw[1])
       THEN ret[1] = SubSeq(raw[1], 1, FirstOf("Notes:", raw[1]) - 1)
       ELSE IF Occurs("Note:", raw[1])
       THEN ret[1] = SubSeq(raw[1], 1, FirstOf("Note:", raw[1]) - 1)
       ELSE ret[1] = raw[1]

\* "Notes:" ahead of "Note:": the cut is at "Notes:"
C14_Witness ==
  /\ Returned("_parse_desctiption")
  /\ call.arg.description = Some(<<"Story.", "Notes:", "Note:">>)
  /\ ret[1] = <<"Story.">>

\* C15: the description has neither "Notes:" nor "Note:" in it, and
\* trimming it once more leaves it as it is
C15_TrimIdempotent ==
  Returned("_parse_desctiption") =>
    /\ ~Occurs("Notes:", ret[1])
    /\ ~Occurs("Note:", ret[1])
    /\ parse_description([description |-> Some(ret[1])]) = ret[1]

\* the components of a fuzzy date that are present, in the order day, month
\* abbreviation, year
PresentComponents(date) ==
  (IF TruthyInt(date.day) THEN <<Str(date.day[1])>> ELSE <<>>) \o
  (IF TruthyInt(date.month)
   THEN <<IF date.month[1] = 10 THEN "Oct" ELSE "Dec">> ELSE <<>>) \o
  (IF TruthyInt(date.year) THEN <<Str(date.year[1])>> ELSE <<>>)

\* parts with one space between each two of them
RECURSIVE SpaceJoined(_)
SpaceJoined(parts) ==
  IF Len(parts) <= 1 THEN parts
  ELSE <<Head(parts), " ">> \o SpaceJoined(Tail(parts))

\* C16: _parse_date returns the present components of the date in the order
\* day, month abbreviation, year with single spaces between them and none
\* before or after; the empty string when no component is present
C16_DateNoStraySeparator ==
  Returned("_parse_date") =>
    ret[1] = SpaceJoined(PresentComponents(call.arg[call.date_key]))

\* the normalizer has been applied to a payload that is there, under a
\* configuration whose relation limit converts
PayloadGiven ==
  /\ Returned("_al_parse_main_result")
  /\ call.arg.errors = <<>> /\ call.arg.data # None
  /\ ~get_max_relations(config).raised

\* C17: the votes of the record are the sum of the amounts of the buckets
\* of the score distribution, and 0 when the distribution is missing, null
\* or empty
C17_VotesSum ==
  PayloadGiven =>
    /\ Normalized
    /\ Record.votes =
         IF "scoreDistribution" \in DOMAIN Payload.stats
            /\ Payload.stats.scoreDistribution # None
         THEN SumAmounts(Payload.stats.scoreDistribution[1])
         ELSE 0

\* the fields of a record that only an anime has, and those only a manga has
AnimeGroup == { "episodes", "season", "season_year", "next_episode_num",
                "next_episode_date", "duration", "studios", "studio_number",
                "trailer" }

MangaGroup == { "volumes", "chapters" }

\* C18: a record built from a MANGA payload has 0 for episodes, season
\* year, next-episode number, duration and extra-studio count, the empty
\* string for season and next-episode date, no studios and no trailer, and
\* its volumes and chapters are the payload's; a record built from an ANIME
\* payload has 0 volumes and chapters and its anime fields come from the
\* payload; every field of both groups is set
C18_KindGroups ==
  Normalized =>
    /\ AnimeGroup \cup MangaGroup \subseteq DOMAIN Record
    /\ Payload.type = Some("MANGA") =>
         /\ Record.episodes = Some(0) /\ Record.season_year = Some(0)
         /\ Record.next_episode_num = Some(0) /\ Record.duration = Some(0)
         /\ Record.studio_number = 0
         /\ Record.season = Some("") /\ Record.next_episode_date = Some("")
         /\ Record.studios = {} /\ Record.trailer = <<>>
         /\ Record.volumes = Payload.volumes /\ Record.chapters = Payload.chapters
    /\ Payload.type = Some("ANIME") =>
         /\ Record.volumes = Some(0) /\ Record.chapters = Some(0)
         /\ Record.episodes = Payload.episodes
         /\ Record.season_year = Payload.seasonYear
         /\ Record.duration = Payload.duration
         /\ Record.next_episode_num =
              IF Payload.nextAiringEpisode = None THEN None
              ELSE Payload.nextAiringEpisode[1].episode
         /\ Record.studio_number =
              IF Payload.studios.edges = <<>> THEN 0
              ELSE Len(Payload.studios.edges) - Cardinality(Record.studios)
         /\ (Payload.trailer # None) =>
              Record.trailer = <<Payload.trailer[1].site, Payload.trailer[1].id>>

\* a MANGA payload that carries episodes, a season, studios and a trailer
\* all the same: the record has the sentinels and the payload's volumes
C18_Witness ==
  /\ Normalized
  /\ Payload.type = Some("MANGA")
  /\ Payload.episodes = Some(12) /\ Payload.trailer # None
  /\ Payload.studios.edges # <<>>
  /\ Record.episodes = Some(0) /\ Record.studios = {} /\ Record.trailer = <<>>
  /\ Record.volumes = Some(3) /\ Record.chapters = Some(27)

\* the two bodies rendered from the record built
Rendered == prepare_message(Record, <<>>)

\* the names of the payload's tags flagged as spoilers, as they are and as
\* they would stand in a link
SpoilerNames ==
  UNION { {Payload.tags[k].name, UrlSpaces(Payload.tags[k].name)} :
            k \in {j \in 1..Len(Payload.tags) : Payload.tags[j].isMediaSpoiler} }

\* C19: the tags of the record are the names of the payload's tags that are
\* not flagged as spoilers, in the payload's order, and no name of a tag
\* flagged as a spoiler is in the record's tags or in either rendered body
C19_NoSpoilerTags ==
  Normalized =>
    LET shown == SelectSeq(Payload.tags, LAMBDA t : ~t.isMediaSpoiler)
    IN /\ Record.tags = [k \in 1..Len(shown) |-> shown[k].name]
       /\ SpoilerNames \cap Tokens(Record.tags) = {}
       /\ ~Rendered.raised
       /\ SpoilerNames \cap Tokens(Rendered.body) = {}
       /\ SpoilerNames \cap Tokens(Rendered.html) = {}

\* a spoiler between two other tags: the two are kept in order and rendered
C19_Witness ==
  /\ Normalized
  /\ Len(Payload.tags) = 3
  /\ Payload.tags[1].name = "Shounen"
  /\ Payload.tags[2].name = "Plot Twist" /\ Payload.tags[2].isMediaSpoiler
  /\ Payload.tags[3].name = "Ninja"
  /\ Record.tags = <<"Shounen", "Ninja">>
  /\ {"Shounen", "Ninja"} \subseteq Tokens(Rendered.body) \cap Tokens(Rendered.html)

\* C20: _get_max_value never raises and returns at least 1: max(1, n) for a
\* configured value that converts to the integer n, the default for an
\* absent key, and the default with exactly one error logged for a
\* configured value that does not convert
C20_MaxValueTotal ==
  Returned("_get_max_value") =>
    /\ ~ret[1].raised
    /\ ret[1].val >= 1
    /\ IF call.name \notin DOMAIN config
       THEN ret[1].val = call.default /\ log = <<>>
       ELSE IF ToInt(config[call.name]).err = ""
       THEN /\ ret[1].val = Max(1, ToInt(config[call.name]).val)
            /\ log = <<>>
       ELSE /\ ret[1].val = call.default
            /\ Len(log) = 1

\* ------------------------------------------------------- the rendered bodies
\* the sections of the message in the order _prepare_message calls their
\* renderers
SectionOrder ==
  << "title", "score", "description", "image", "other titles", "format", "status",
     "release", "studios", "links", "genres", "tags", "related entries",
     "other results" >>

\* what the renderer of a section returns for a record, a candidate list
\* and a mode
Section(name, data, other, is_html) ==
  CASE name = "title" -> get_titles(data, is_html)
    [] name = "score" -> get_score(data, is_html)
    [] name = "description" -> get_description(data, is_html)
    [] name = "image" ->
         IF TruthyStr(data.image)
         THEN get_image(data.image[1], <<"Poster for ", Fmt(MainTitle(data))>>, is_html)
         ELSE <<>>
    [] name = "other titles" -> get_other_titles(data, is_html)
    [] name = "format" -> get_format(data, is_html)
    [] name = "status" -> get_status_next_episode(data, is_html)
    [] name = "release" -> get_dates_season(data, is_html)
    [] name = "studios" -> get_studios(data, is_html)
    [] name = "links" -> get_links(data, is_html)
    [] name = "genres" -> get_genres(data, is_html)
    [] name = "tags" -> get_tags(data, is_html)
    [] name = "related entries" -> get_related_entries(data, is_html)
    [] name = "other results" -> get_other_results(data, other, is_html)

\* block stands in text at position p
OccursAt(block, text, p) ==
  p + Len(block) - 1 <= Len(text) /\ SubSeq(text, p, p + Len(block) - 1) = block

RECURSIVE InOrder(_, _, _)
\* the blocks that are not empty stand in text one after another, each
\* behind the end of the one before, from position from on
InOrder(blocks, text, from) ==
  IF blocks = <<>> THEN TRUE
  ELSE IF Head(blocks) = <<>> THEN InOrder(Tail(blocks), text, from)
  ELSE \E p \in from..Len(text) :
         /\ OccursAt(Head(blocks), text, p)
         /\ InOrder(Tail(blocks), text, p + Len(Head(blocks)))

\* block stands in text somewhere
Contains(block, text) == \E p \in 1..Len(text) : OccursAt(block, text, p)

\* _prepare_message has returned its two bodies
Prepared == Returned("_prepare_message") /\ ~ret[1].raised

\* C21: the sections of a message stand in the HTML body and in the
\* Markdown body in the one order of SectionOrder, and a section has
\* content in the HTML body exactly when it has content in the Markdown body
C21_ModesAgree ==
  Prepared =>
    /\ \A k \in 1..Len(SectionOrder) :
         (Section(SectionOrder[k], call.data, call.other, TRUE) # <<>>)
           <=> (Section(SectionOrder[k], call.data, call.other, FALSE) # <<>>)
    /\ \A k \in 1..Len(SectionOrder) :
         Contains(Section(SectionOrder[k], call.data, call.other, TRUE), ret[1].html)
           <=> Contains(Section(SectionOrder[k], call.data, call.other, FALSE),
                        ret[1].body)
    /\ InOrder([k \in 1..Len(SectionOrder) |->
                  Section(SectionOrder[k], call.data, call.other, TRUE)],
               ret[1].html, 1)
    /\ InOrder([k \in 1..Len(SectionOrder) |->
                  Section(SectionOrder[k], call.data, call.other, FALSE)],
               ret[1].body, 1)

\* a record and a candidate list for which every one of the fourteen
\* sections has content in both bodies
C21_Witness ==
  /\ Prepared
  /\ Len(call.other) = 3
  /\ \A k \in 1..Len(SectionOrder) :
       /\ Section(SectionOrder[k], call.data, call.other, TRUE) # <<>>
       /\ Contains(Section(SectionOrder[k], call.data, call.other, TRUE), ret[1].html)
       /\ Contains(Section(SectionOrder[k], call.data, call.other, FALSE), ret[1].body)

\* the rendered section holds the trailer link
HasTrailerLink(text) ==
  "[clapper] <b>TRAILER</b>" \in Tokens(text) \/ "[clapper] **TRAILER**" \in Tokens(text)

\* the positions in a rendered section at which the trailer link text stands
TrailerPositions(text) ==
  {k \in 1..Len(text) : text[k] \in {"[clapper] <b>TRAILER</b>", "[clapper] **TRAILER**"}}

\* the positions in a rendered section at which the name of an external
\* link stands
LinkPositions(text, data) ==
  {k \in 1..Len(text) : \E j \in 1..Len(data.links) : text[k] = data.links[j][1]}

\* C22: the links section holds a trailer link exactly when the trailer
\* site is "youtube" and the trailer id is not empty, the trailer link
\* stands ahead of every external link, and the section is empty exactly
\* when there is neither such a trailer nor an external link
C22_TrailerOnlyYoutube ==
  Returned("_get_links") =>
    LET data == call.data
        playable == data.trailer # <<>> /\ data.trailer[1] = "youtube"
                    /\ data.trailer[2] # ""
    IN /\ HasTrailerLink(ret[1]) <=> playable
       /\ \A t \in TrailerPositions(ret[1]) : \A l \in LinkPositions(ret[1], data) : t < l
       /\ (ret[1] = <<>>) <=> (~playable /\ data.links = <<>>)

\* the openings of a collapsible disclosure
DisclosureOpenings ==
  { "<details>", "<details><summary>", "<details><summary><b>DETAILS</b></summary>",
    "<details><summary><b>LINKS</b></summary>" }

\* the rendered section is wrapped in a collapsible disclosure
Collapsed(text) == Tokens(text) \cap DisclosureOpenings # {}

\* C23: the HTML tags section is wrapped in a collapsible disclosure
\* exactly when the record has more tags than the display threshold
\* (10 unless configured, at least 1); the Markdown tags section never is
C23_TagsCollapse ==
  Returned("_get_tags") =>
    IF call.is_html
    THEN Collapsed(ret[1]) <=>
           Len(call.data.tags) > get_max_value(config, "max_tags", 10).val
    ELSE ~Collapsed(ret[1])

\* the section named stands in a rendered body, told by its header
HasRelated(text) ==
  "<b>Related entries:</b>" \in Tokens(text)
  \/ "> **Related entries:**  \n>  \n" \in Tokens(text)

HasOthers(text) ==
  "<b>Other results:</b>" \in Tokens(text)
  \/ "> **Other results:**  \n>  \n" \in Tokens(text)

\* the ids of the candidates a rendered other-results section links to, in
\* the order of the section
ListedIds(text, other) ==
  SelectSeq(text, LAMBDA t : \E k \in 1..Len(other) : t = Str(other[k].id))

\* the numbers in front of the entries of a rendered other-results section
EntryNumbers(text) ==
  LET at == SelectSeq([k \in 1..Len(text) |-> k],
                      LAMBDA k : k > 1 /\ k < Len(text) /\ text[k + 1] = ". "
                                 /\ text[k - 1] \in {"<blockquote>", "> > "})
  IN [k \in 1..Len(at) |-> text[at[k]]]

\* C24: both bodies hold the related-entries section exactly when the
\* record has a relation and the other-results section exactly when there
\* is more than one candidate; the other-results section lists the
\* candidates behind the first one, in their order, numbered from 1
C24_LinkSections ==
  Prepared =>
    LET others == [h \in BOOLEAN |-> Section("other results", call.data, call.other, h)]
        rest == [k \in 1..(Len(call.other) - 1) |-> Str(call.other[k + 1].id)]
    IN /\ HasRelated(ret[1].html) <=> call.data.relations # <<>>
       /\ HasRelated(ret[1].body) <=> call.data.relations # <<>>
       /\ HasOthers(ret[1].html) <=> Len(call.other) > 1
       /\ HasOthers(ret[1].body) <=> Len(call.other) > 1
       /\ Len(call.other) > 1 =>
            /\ Contains(others[TRUE], ret[1].html)
            /\ Contains(others[FALSE], ret[1].body)
            /\ \A h \in BOOLEAN :
                 /\ ListedIds(others[h], call.other) = rest
                 /\ EntryNumbers(others[h]) = [k \in 1..Len(rest) |-> Str(k)]

\* three candidates and no relation: the second and the third candidate
\* are listed as 1 and 2 and there is no related-entries section
C24_Witness ==
  /\ Prepared
  /\ Len(call.other) = 3 /\ call.data.relations = <<>>
  /\ HasOthers(ret[1].html) /\ HasOthers(ret[1].body)
  /\ ~HasRelated(ret[1].html) /\ ~HasRelated(ret[1].body)
  /\ ListedIds(Section("other results", call.data, call.other, TRUE), call.other)
       = <<"102", "103">>
  /\ EntryNumbers(Section("other results", call.data, call.other, FALSE)) = <<"1", "2">>

\* ------------------------------------------------------------- end to end
\* invocation i got the page of three candidates and, for the first of
\* them, the detail response with the three relation edges
ThreeByThree(i) ==
  /\ results_json[i] = Some(SearchPage(<<Media1, Media2, Media3>>))
  /\ main_result_json[i] # None
  /\ main_result_json[i][1].errors = <<>>
  /\ main_result_json[i][1].data # None
  /\ main_result_json[i][1].data[1].Media.relations.edges = ThreeEdges

\* the relation labels a rendered body lists, in its order
ListedLabels(text) ==
  SelectSeq(text, LAMBDA t : t \in {"Adaptation", "Sequel", "Fakerelation"})

\* C25: three candidates and a detail response with three relation edges,
\* one of an unknown kind, end in a composite reply whose two bodies list
\* the first min(3, relation limit) relations in priority order, the
\* unknown kind last, and the two other candidates as other results
C25_EndToEnd ==
  \A i \in Active :
    (ThreeByThree(i) /\ Ended(i)) =>
      /\ pc[i] = "done"
      /\ LastOut(i).op = "reply" /\ LastOut(i).composite
      /\ \A text \in {LastOut(i).body, LastOut(i).html} :
           /\ ListedLabels(text) =
                Prefix(<<"Adaptation", "Sequel", "Fakerelation">>,
                       IF "max_relations" \in DOMAIN config
                          /\ ToInt(config.max_relations).err = ""
                       THEN Max(1, ToInt(config.max_relations).val)
                       ELSE 4)
           /\ HasOthers(text)
           /\ ListedIds(text, <<Media2, Media3>>) = <<"102", "103">>

\* ------------------------------------------------- the section renderers
\* a score as it is shown: the stored integer divided by ten, out of 10
Shown(score) == <<"[star] ", Str(score \div 10), ".", Str(score % 10), "/10">>

\* C26: the score section is there exactly when the average or the mean
\* score is set; it shows the average score when that is set and the mean
\* score otherwise; the votes are appended exactly when they are not 0 and
\* so are the favorites; without a score the section is empty whatever the
\* votes and favorites
C26_ScoreSection ==
  Returned("_get_score") =>
    LET data == call.data
        average == TruthyInt(data.average_score)
        mean == TruthyInt(data.mean_score)
    IN /\ (ret[1] # <<>>) <=> (average \/ mean)
       /\ average => Contains(Shown(data.average_score[1]), ret[1])
       /\ (~average /\ mean) => Contains(Shown(data.mean_score[1]), ret[1])
       /\ (average \/ mean) =>
            /\ Contains(<<" | [user] ", Str(data.votes), " votes">>, ret[1])
                 <=> data.votes # 0
            /\ " votes" \in Tokens(ret[1]) <=> data.votes # 0
            /\ " favorites" \in Tokens(ret[1]) <=> TruthyInt(data.favorites)
            /\ TruthyInt(data.favorites) =>
                 Contains(<<" | [heart] ", Str(data.favorites[1]), " favorites">>, ret[1])

\* no average score, a mean score, no votes, favorites: 8.5 and the
\* favorites are shown, votes are not
C26_Witness ==
  /\ Returned("_get_score")
  /\ call.data.average_score = None /\ call.data.mean_score = Some(85)
  /\ call.data.votes = 0 /\ call.data.favorites = Some(69)
  /\ Contains(<<"[star] ", "8", ".", "5", "/10", " | [heart] ", "69", " favorites">>, ret[1])
  /\ " votes" \notin Tokens(ret[1])

\* C27: the release section shows the start date alone when it is set and
\* equals the end date or the format is Movie, else "start to end" with "?"
\* for an end date not set; a season with its year follows after " | ", or
\* stands alone when the start date is not set; the section is empty when
\* there is neither a start date nor a season with its year
C27_ReleaseLine ==
  Returned("_get_dates_season") =>
    LET data == call.data
        start == data.start_date
        single == start = data.end_date \/ data.format = Some("Movie")
        seasonal == TruthyStr(data.season) /\ TruthyInt(data.season_year)
        label == IF call.is_html THEN <<"<blockquote><b>", "Released:", "</b> ">>
                 ELSE <<"> > **", "Released:**", " ">>
    IN /\ (ret[1] = <<>>) <=> (start = <<>> /\ ~seasonal)
       /\ (start # <<>> /\ single) =>
            /\ Contains(label \o start, ret[1])
            /\ " to " \notin Tokens(ret[1])
       /\ (start # <<>> /\ ~single) =>
            Contains(label \o start \o <<" to ">> \o
                     (IF data.end_date # <<>> THEN data.end_date ELSE <<"?">>), ret[1])
       /\ (start # <<>> /\ seasonal) =>
            Contains(<<" | ", data.season[1], " ", Str(data.season_year[1])>>, ret[1])
       /\ (start = <<>> /\ seasonal) =>
            /\ Contains(label \o <<data.season[1], " ", Str(data.season_year[1])>>, ret[1])
            /\ " | " \notin Tokens(ret[1])
       /\ ~seasonal => " | " \notin Tokens(ret[1])
       /\ ret[1] # <<>> =>
            Len(ret[1]) = 4 + (IF start = <<>> THEN 0
                               ELSE IF single THEN Len(start)
                               ELSE Len(start) + 1 +
                                    (IF data.end_date # <<>> THEN Len(data.end_date) ELSE 1))
                            + (IF seasonal THEN (IF start # <<>> THEN 4 ELSE 3) ELSE 0)

\* a movie with different start and end dates and a season: the start date
\* alone, then the season and the year
C27_Witness ==
  /\ Returned("_get_dates_season") /\ call.is_html
  /\ call.data.format = Some("Movie")
  /\ call.data.start_date # <<>> /\ call.data.end_date # <<>>
  /\ call.data.start_date # call.data.end_date
  /\ ret[1] = <<"<blockquote><b>", "Released:", "</b> ", "4", " ", "Oct", " ", "2024",
                " | ", "Fall", " ", "2024", "</blockquote>">>

\* two paragraph breaks stand side by side in a text
AdjacentBreaks(text) ==
  \E k \in 1..(Len(text) - 1) : text[k] = "<br>" /\ text[k + 1] = "<br>"

\* C28: the HTML description has no two paragraph breaks side by side,
\* however many the description of the record has in a row, and the
\* normalizer hands the breaks of the raw description on as they are
C28_SingleBreaks ==
  /\ (Returned("_get_desctiption") /\ call.is_html) => ~AdjacentBreaks(ret[1])
  /\ (Returned("_parse_desctiption") /\ call.arg.description # None) =>
       ret[1] = SubSeq(call.arg.description[1], 1, Len(ret[1]))

\* the record b is the record a but for its cover-image reference
OnlyImageDiffers(a, b) == [a EXCEPT !.image = b.image] = b

\* the positions of the handler at which the image step awaits a response
ImageSteps == { "image_get", "image_upload" }

\* C29: once _al_parse_main_result has returned the record, a step changes
\* at most its cover-image reference; the reference changes only in the image
\* step, only when it was non-empty, and the step then moves on to rendering,
\* from where the image step is never entered again; rendering and replying
\* change neither the record nor the candidate list
C29_RecordFrame ==
  [][\A i \in Invs :
       main_result[i] # None =>
         /\ main_result'[i] # None
         /\ OnlyImageDiffers(main_result[i][1], main_result'[i][1])
         /\ results'[i] = results[i]
         /\ main_result'[i] # main_result[i] =>
              /\ TruthyStr(main_result[i][1].image)
              /\ pc[i] \in ImageSteps
              /\ pc'[i] = "render"
         /\ pc[i] \notin ImageSteps =>
              /\ main_result'[i] = main_result[i]
              /\ pc'[i] \notin ImageSteps]_vars

\* the cover image was relocated and the composite reply was sent
C29_Witness ==
  /\ pc[1] = "done"
  /\ main_result[1] # None
  /\ main_result[1][1].image = Some("mxc://thumbnail.example.com/image.png")
  /\ main_result[1][1].description # None
  /\ Len(results[1]) > 1
  /\ out[1][Len(out[1])].op = "reply"
  /\ out[1][Len(out[1])].composite

\* what the handler of invocation i holds in its own variables
Local(i) == <<pc[i], title[i], media_type[i], results_json[i], results[i],
              main_result_json[i], main_result[i], out[i]>>

\* what invocation i was given: its command, the responses to its catalog
\* calls, the outcome of its image step and how far it has got
Given(i) == <<title[i], media_type[i], results_json[i], main_result_json[i],
              main_result[i], pc[i], Len(out[i])>>

\* log grew at its end, or stayed as it was
Extended(old, new) == Len(new) >= Len(old) /\ SubSeq(new, 1, Len(old)) = old

\* invocation i was answered with a failure: no connection, an error
\* envelope, or an image that could not be relocated
Failed(i) ==
  /\ pc[i] = "done"
  /\ title[i] # <<>>
  /\ \/ results_json[i] = None
     \/ results[i] = <<>>
     \/ main_result_json[i] = None
     \/ main_result[i] = None
     \/ main_result[i][1].image = Some("")

\* invocation i was answered with the composite message, cover image included
Succeeded(i) ==
  /\ pc[i] = "done"
  /\ main_result[i] # None
  /\ main_result[i][1].image = Some("mxc://thumbnail.example.com/image.png")
  /\ out[i][Len(out[i])].op = "reply"
  /\ out[i][Len(out[i])].composite

\* C30: with several invocations in flight, a step is the step of one
\* invocation and leaves the calls, the reply and every other variable of
\* the other invocations as they were; the configuration is not written and
\* the log only grows; and two invocations given the same title, media kind
\* and responses have made the same calls and sent the same reply, whatever
\* happened to the invocations they were interleaved with
C30_Independent ==
  /\ [][/\ \E j \in Invs : \A i \in Invs \ {j} : Local(i)' = Local(i)
        /\ config' = config
        /\ Extended(log, log')]_vars
  /\ [](\A i, j \in Invs : Given(i) = Given(j) => out[i] = out[j])

\* two invocations were given the same command and the same catalog
\* responses; the image step of the first failed and it replied without the
\* cover image, the second relocated its image and replied with it
C30_Witness ==
  /\ NumInv >= 2
  /\ Failed(1)
  /\ main_result[1] # None
  /\ Succeeded(2)
  /\ title[1] = title[2]
  /\ media_type[1] = media_type[2]
  /\ results_json[1] = results_json[2]
  /\ main_result_json[1] = main_result_json[2]
  /\ out[1] # out[2]

====
